---- MODULE Spec2Model ----
(***************************************************************************)
(* Model of the Sidiya Reminder Rule & Escalation Engine                   *)
(* (src/app/escalation.py, src/app/firestore_client.py,                    *)
(*  src/app/notifications.py, src/app/main.py).                            *)
(*                                                                         *)
(* Conventions                                                             *)
(*  - an instant is a number of minutes of real (UTC) time;                *)
(*  - a calendar date ("%Y-%m-%d") is the number of the day;               *)
(*  - a clock string "HH:MM" is the pair <<h, m>>, an unparseable one is   *)
(*    the empty tuple;                                                     *)
(*  - a Firestore collection is a sequence (a document's id is its index). *)
(*    or a set of records (the append-only logs);                          *)
(*  - a weight is a whole number of kilograms.                             *)
(***************************************************************************)
EXTENDS Integers, Sequences, FiniteSets, TLC

VARIABLES
    now,              \* the real time, minutes (datetime.now(timezone.utc))
    gw,               \* what the push and SMS gateways answer at present
    patients,         \* collection "patients": id -> document
    rules,            \* sub-collection "reminder_rules": patient id -> documents
    vital_logs,       \* sub-collections "vital_logs"
    medication_logs,  \* sub-collections "medication_logs"
    escalations,      \* collection "escalations"
    notifications,    \* sub-collections "notifications" (NotificationRecords)
    outbox,           \* gateway sends attempted by the operation in progress / last run
    pass,             \* the check_missed_actions invocation in progress, if any
    used,             \* requests and cron invocations made so far
    request,          \* the input of the request about to be made
    sched_runs,       \* the evaluate_and_send_reminders invocations in progress
    chk_runs,         \* overlapping check_missed_actions invocations in progress
    resp              \* what the last operation returned to its caller

vars == <<now, gw, patients, rules, vital_logs, medication_logs, escalations,
          notifications, outbox, pass, used, request, sched_runs, chk_runs, resp>>

-----------------------------------------------------------------------------
(* Bounds of the model *)

MaxCalls == 3      \* requests and cron invocations made in one run

-----------------------------------------------------------------------------
(* Time *)

DAY == 1440
IST_OFFSET == 330
LEVEL1_AGE == 120
LEVEL2_AGE == 240
NOON == <<12, 0>>
DEFAULT_AFTER_MINUTES == 60
CONSEC_DAYS == 3
WEEK_DAYS == 7

None == "None"
NoDate == -1
NoTime == <<>>

\* escalation._ist_now: the UTC instant moved forward by 5 h 30 min
ist_now(t) == t + IST_OFFSET

\* strftime("%Y-%m-%d") of an instant
strftime_date(t) == t \div DAY

\* strftime("%H:%M") of an instant
strftime_hm(t) == <<(t % DAY) \div 60, t % 60>>

\* firestore_client._today_iso: the UTC calendar date
today_iso(t) == strftime_date(t)

\* comparison of two zero-padded "HH:MM" strings, as Python compares strings
StrGE(a, b) == a[1] > b[1] \/ (a[1] = b[1] /\ a[2] >= b[2])

\* h, m = map(int, s.split(":")) succeeds
Parses(s) == Len(s) = 2

\* a times entry that is not a string (a null, a number): the store holds
\* whatever was written to the document
NullTime == <<-1>>

\* s.split(":") succeeds: the entry is a string. On any other value it raises
\* AttributeError, which the handlers of ValueError and TypeError do not catch
Splits(s) == s # NullTime

\* the answer to a request whose handler raised: neither the handlers of the
\* operator's resolve nor the cron endpoints catch what the code below them
\* raises
SERVER_ERROR == 500

\* h * 60 + m
MinutesOf(s) == s[1] * 60 + s[2]

\* An instant given by its IST calendar day and IST clock
AtIST(day, h, m) == day * DAY + h * 60 + m - IST_OFFSET

-----------------------------------------------------------------------------
(* Gateways *)

\* notifications._send_sms: delivered iff Twilio is configured and answers
send_sms(phone) == gw.sms /\ phone # None

\* notifications._send_fcm: delivered iff there is a token and one send succeeds
send_fcm(tokens) == tokens > 0 /\ gw.fcm

\* escalation._notify_caregiver: an SMS is attempted iff the patient record has
\* a caregiver phone
notify_caregiver(out, p) ==
    IF patients[p].caregiver_phone = None THEN out
    ELSE Append(out, [to |-> "caregiver", patient_id |-> p, via |-> "sms",
                      ok |-> send_sms(patients[p].caregiver_phone)])

\* escalation._notify_nurse
notify_nurse(out, p) ==
    IF patients[p].nurse_phone = None THEN out
    ELSE Append(out, [to |-> "nurse", patient_id |-> p, via |-> "sms",
                      ok |-> send_sms(patients[p].nurse_phone)])

\* notifications.send_notification: push, then SMS, then the NotificationRecord.
\* st carries what an operation writes: [esc, notif, out, stats, alert, resolved].
PushTried(p) == patients[p].push /\ patients[p].device_tokens > 0
PushOk(p) == PushTried(p) /\ send_fcm(patients[p].device_tokens)
SmsTriedAlways(p) == patients[p].sms /\ patients[p].phone # None
SmsTried(p) == ~PushOk(p) /\ patients[p].sms /\ patients[p].phone # None
SmsOk(p) == SmsTried(p) /\ send_sms(patients[p].phone)
ChannelOf(p) == IF PushOk(p) THEN "push" ELSE IF SmsOk(p) THEN "sms" ELSE "failed"

\* a dispatcher that records every notification as sent
send_notification_status_sent(st, p, notification_type, rule_id) ==
    LET o1 == IF PushTried(p)
              THEN Append(st.out, [to |-> "patient", patient_id |-> p,
                                   via |-> "push", ok |-> PushOk(p)])
              ELSE st.out
        o2 == IF SmsTried(p)
              THEN Append(o1, [to |-> "patient", patient_id |-> p,
                               via |-> "sms", ok |-> SmsOk(p)])
              ELSE o1
        rec == [patient_id |-> p, rule_id |-> rule_id, type |-> notification_type,
                channel |-> ChannelOf(p), status |-> "sent",
                date |-> strftime_date(now), sent_at |-> now]
    IN [st EXCEPT !.out = o2, !.notif = Append(st.notif, rec)]

\* a dispatcher that records the notification without the rule it is for
send_notification_no_rule(st, p, notification_type, rule_id) ==
    LET o1 == IF PushTried(p)
              THEN Append(st.out, [to |-> "patient", patient_id |-> p,
                                   via |-> "push", ok |-> PushOk(p)])
              ELSE st.out
        o2 == IF SmsTried(p)
              THEN Append(o1, [to |-> "patient", patient_id |-> p,
                               via |-> "sms", ok |-> SmsOk(p)])
              ELSE o1
        rec == [patient_id |-> p, rule_id |-> None, type |-> notification_type,
                channel |-> ChannelOf(p),
                status |-> IF ChannelOf(p) # "failed" THEN "sent" ELSE "failed",
                date |-> strftime_date(now), sent_at |-> now]
    IN [st EXCEPT !.out = o2, !.notif = Append(st.notif, rec)]

send_notification(st, p, notification_type, rule_id) ==
    LET o1 == IF PushTried(p)
              THEN Append(st.out, [to |-> "patient", patient_id |-> p,
                                   via |-> "push", ok |-> PushOk(p)])
              ELSE st.out
        o2 == IF SmsTried(p)
              THEN Append(o1, [to |-> "patient", patient_id |-> p,
                               via |-> "sms", ok |-> SmsOk(p)])
              ELSE o1
        rec == [patient_id |-> p, rule_id |-> rule_id, type |-> notification_type,
                channel |-> ChannelOf(p),
                status |-> IF ChannelOf(p) # "failed" THEN "sent" ELSE "failed",
                date |-> strftime_date(now), sent_at |-> now]
    IN [st EXCEPT !.out = o2, !.notif = Append(st.notif, rec)]

-----------------------------------------------------------------------------
(* Store: escalations *)

\* a create that writes to a document keyed by patient, trigger, date and
\* medication: an existing document of that key is opened again in place
create_escalation_keyed(esc, data) ==
    LET same == {i \in DOMAIN esc :
                    /\ esc[i].patient_id = data.patient_id
                    /\ esc[i].trigger_type = data.trigger_type
                    /\ esc[i].date = data.date
                    /\ esc[i].medication_name = data.medication_name}
    IN IF same = {}
       THEN Append(esc, [patient_id |-> data.patient_id,
                         trigger_type |-> data.trigger_type,
                         date |-> data.date,
                         level |-> data.level,
                         medication_name |-> data.medication_name,
                         scheduled_time |-> data.scheduled_time,
                         status |-> "open",
                         resolved_by |-> None,
                         created_at |-> now])
       ELSE LET i == CHOOSE j \in same : \A k \in same : j <= k
            IN [esc EXCEPT ![i].status = "open", ![i].resolved_by = None,
                           ![i].level = data.level, ![i].created_at = now]

\* firestore_client.create_escalation: status open, created_at now
create_escalation(esc, data) ==
    Append(esc, [patient_id |-> data.patient_id,
                 trigger_type |-> data.trigger_type,
                 date |-> data.date,
                 level |-> data.level,
                 medication_name |-> data.medication_name,
                 scheduled_time |-> data.scheduled_time,
                 status |-> "open",
                 resolved_by |-> None,
                 created_at |-> now])

\* a query of the open escalations without the filter on the patient
get_open_escalations_any_patient(esc, p) ==
    {i \in DOMAIN esc : esc[i].status = "open"}

\* firestore_client.get_open_escalations(patient_id): the ids found
get_open_escalations(esc, p) ==
    {i \in DOMAIN esc : esc[i].status = "open" /\ esc[i].patient_id = p}

\* firestore_client.resolve_escalation
resolve_escalation(esc, id, by) ==
    [esc EXCEPT ![id].status = "resolved", ![id].resolved_by = by]

\* firestore_client.update_escalation(id, {"level": l})
update_escalation(esc, id, l) == [esc EXCEPT ![id].level = l]

\* firestore_client.get_vitals_for_date(patient_id, date_iso, "weight")
get_vitals_for_date(logs, p, d, type) ==
    {v \in logs : v.patient_id = p /\ v.date = d /\ v.type = type}

\* firestore_client.get_medication_logs_for_date
get_medication_logs_for_date(logs, p, d) ==
    {ml \in logs : ml.patient_id = p /\ ml.date = d}

Min(S) == CHOOSE x \in S : \A y \in S : x <= y

-----------------------------------------------------------------------------
(* Escalation engine *)

\* the age as the time elapsed since the creation
age_minutes_elapsed(created_at) == now - created_at

\* the age _handle_missed_action computes:
\* (_ist_now().timestamp() - created_at.timestamp()) / 60
age_minutes(created_at) == ist_now(now) - created_at

\* _handle_missed_action: the open escalation of this trigger today (and, for a
\* medication, of this medication name), in the order the query returns
existing_escalation(esc, p, trigger_type, today, med) ==
    LET found == {i \in get_open_escalations(esc, p) :
                     /\ esc[i].trigger_type = trigger_type
                     /\ esc[i].date = today
                     /\ (med # None => esc[i].medication_name = med)}
    IN IF found = {} THEN 0 ELSE Min(found)

\* a promotion that looks at the age alone: an escalation old enough for level 2
\* goes there from level 0 directly
promoted_level_by_age(level, age) ==
    IF level < 2 /\ age >= LEVEL2_AGE THEN 2
    ELSE IF level = 0 /\ age >= LEVEL1_AGE THEN 1
    ELSE level

\* a promotion without a last level: an escalation old enough goes one level
\* up on every pass
promoted_level_uncapped(level, age) ==
    IF level = 0 /\ age >= LEVEL1_AGE THEN 1
    ELSE IF level >= 1 /\ age >= LEVEL2_AGE THEN level + 1
    ELSE level

\* the level an existing escalation is promoted to (its own level: unchanged)
promoted_level(level, age) ==
    IF level = 0 /\ age >= LEVEL1_AGE THEN 1
    ELSE IF level = 1 /\ age >= LEVEL2_AGE THEN 2
    ELSE level

\* _handle_missed_action, lines 224-236: what the query of the open escalations
\* gives for today's escalation of this trigger; nothing, or its id, level and
\* creation time as read
read_existing(esc, p, trigger_type, today, med) ==
    LET ex == existing_escalation(esc, p, trigger_type, today, med)
    IN IF ex = 0 THEN <<>>
       ELSE <<[id |-> ex, level |-> esc[ex].level, created_at |-> esc[ex].created_at]>>

\* a handler that reminds the patient again whenever the action is found
\* missed, also when today's escalation exists already
write_missed_action_remind_always(st, p, trigger_type, today, med, sched, existing) ==
    IF existing # <<>>
    THEN LET ex == existing[1].id
             level == existing[1].level
             to == promoted_level(level, age_minutes(existing[1].created_at))
             reminded == send_notification(st, p, trigger_type, None)
         IN IF to = level THEN reminded
            ELSE [reminded EXCEPT
                    !.esc = update_escalation(st.esc, ex, to),
                    !.out = IF to = 1 THEN notify_caregiver(reminded.out, p)
                            ELSE notify_nurse(reminded.out, p),
                    !.stats.level_ups = @ + 1]
    ELSE LET created == [st EXCEPT
                           !.esc = create_escalation(st.esc,
                               [patient_id |-> p, trigger_type |-> trigger_type,
                                date |-> today, level |-> 0,
                                medication_name |-> med, scheduled_time |-> sched]),
                           !.stats.new_escalations = @ + 1]
         IN send_notification(created, p, trigger_type, None)

\* _handle_missed_action, lines 238-278: the promotion of the escalation read,
\* or the creation of one at level 0 and the reminder to the patient
write_missed_action(st, p, trigger_type, today, med, sched, existing) ==
    IF existing # <<>>
    THEN LET ex == existing[1].id
             level == existing[1].level
             to == promoted_level(level, age_minutes(existing[1].created_at))
         IN IF to = level THEN st
            ELSE [st EXCEPT
                    !.esc = update_escalation(st.esc, ex, to),
                    !.out = IF to = 1 THEN notify_caregiver(st.out, p)
                            ELSE notify_nurse(st.out, p),
                    !.stats.level_ups = @ + 1]
    ELSE LET created == [st EXCEPT
                           !.esc = create_escalation(st.esc,
                               [patient_id |-> p, trigger_type |-> trigger_type,
                                date |-> today, level |-> 0,
                                medication_name |-> med, scheduled_time |-> sched]),
                           !.stats.new_escalations = @ + 1]
         IN send_notification(created, p, trigger_type, None)

\* escalation._handle_missed_action
handle_missed_action(st, p, trigger_type, today, med, sched) ==
    write_missed_action(st, p, trigger_type, today, med, sched,
                        read_existing(st.esc, p, trigger_type, today, med))


\* the work of one check_missed_actions invocation, in the order of its loops:
\* per active patient the weight check, one entry per time of every active
\* medication rule, and the consecutive-days check
RuleItems(p, r) ==
    [k \in 1..Len(rules[p][r].times) |->
        [kind |-> "med", patient_id |-> p, rule |-> r, k |-> k]]

RECURSIVE MedItems(_, _)
MedItems(p, r) ==
    IF r > Len(rules[p]) THEN <<>>
    ELSE (IF rules[p][r].active /\ rules[p][r].type = "medication"
          THEN RuleItems(p, r) ELSE <<>>) \o MedItems(p, r + 1)

PatientItems(p) ==
    <<[kind |-> "weight", patient_id |-> p, rule |-> 0, k |-> 0]>>
    \o MedItems(p, 1)
    \o <<[kind |-> "consec", patient_id |-> p, rule |-> 0, k |-> 0]>>

\* firestore_client.list_active_patients, in document order
PatientOrder == <<"p1", "p2">>

\* a pass over every patient document, whatever its status
RECURSIVE PassItemsAnyStatus(_)
PassItemsAnyStatus(i) ==
    IF i > Len(PatientOrder) THEN <<>>
    ELSE (IF PatientOrder[i] \in DOMAIN patients
          THEN PatientItems(PatientOrder[i]) ELSE <<>>) \o PassItemsAnyStatus(i + 1)

RECURSIVE PassItems(_)
PassItems(i) ==
    IF i > Len(PatientOrder) THEN <<>>
    ELSE (IF PatientOrder[i] \in DOMAIN patients
             /\ patients[PatientOrder[i]].status = "active"
          THEN PatientItems(PatientOrder[i]) ELSE <<>>) \o PassItems(i + 1)

\* check_missed_actions, lines 143-145: past noon (IST) and no weight log today
weight_missed(p) ==
    /\ StrGE(strftime_hm(ist_now(now)), NOON)
    /\ get_vitals_for_date(vital_logs, p, strftime_date(ist_now(now)), "weight") = {}

\* check_missed_actions, lines 142-146: the missed-weight check of one patient
step_weight(st, p) ==
    LET counted == [st EXCEPT !.stats.checked = @ + 1]
    IN IF weight_missed(p)
       THEN handle_missed_action(counted, p, "missed_weight",
                                 strftime_date(ist_now(now)), None, NoTime)
       ELSE counted

\* check_missed_actions, lines 156-175: time k of rule r is parseable, its
\* escalation window has passed and no acknowledgment of it is logged today
med_missed(p, r, k) ==
    LET rule == rules[p][r]
        scheduled_time == rule.times[k]
        current_minutes == MinutesOf(strftime_hm(ist_now(now)))
        logged == \E ml \in get_medication_logs_for_date(medication_logs, p,
                                    strftime_date(ist_now(now))) :
                     /\ ml.medication_name = rule.medication_name
                     /\ ml.scheduled_time = scheduled_time
    IN /\ Parses(scheduled_time)
       /\ current_minutes >= MinutesOf(scheduled_time) + rule.after_minutes
       /\ ~logged

\* check_missed_actions, lines 154-179: one scheduled time of a medication rule
step_med(st, p, r, k) ==
    IF med_missed(p, r, k)
    THEN handle_missed_action(st, p, "missed_medication",
                              strftime_date(ist_now(now)),
                              rules[p][r].medication_name, rules[p][r].times[k])
    ELSE st

\* check_missed_actions, lines 182-189: the prior days without a weight log,
\* counted backwards from yesterday up to the first day that has one
RECURSIVE missed_days(_, _)
missed_days(p, days_ago) ==
    IF days_ago > CONSEC_DAYS THEN 0
    ELSE IF get_vitals_for_date(vital_logs, p,
                                strftime_date(ist_now(now) - days_ago * DAY),
                                "weight") = {}
         THEN 1 + missed_days(p, days_ago + 1)
         ELSE 0

\* the consecutive-days check without "level": 2 in the created document, which
\* then reads as level 0
step_consec_default_level(st, p) ==
    LET has_consec == \E i \in get_open_escalations(st.esc, p) :
                          st.esc[i].trigger_type = "consecutive_missed_weight"
    IN IF missed_days(p, 1) >= CONSEC_DAYS /\ ~has_consec
       THEN [st EXCEPT
               !.esc = create_escalation(st.esc,
                          [patient_id |-> p,
                           trigger_type |-> "consecutive_missed_weight",
                           date |-> NoDate, level |-> 0,
                           medication_name |-> None, scheduled_time |-> NoTime]),
               !.out = notify_nurse(st.out, p),
               !.stats.new_escalations = @ + 1]
       ELSE st

\* check_missed_actions, lines 191-207
step_consec(st, p) ==
    LET has_consec == \E i \in get_open_escalations(st.esc, p) :
                          st.esc[i].trigger_type = "consecutive_missed_weight"
    IN IF missed_days(p, 1) >= CONSEC_DAYS /\ ~has_consec
       THEN [st EXCEPT
               !.esc = create_escalation(st.esc,
                          [patient_id |-> p,
                           trigger_type |-> "consecutive_missed_weight",
                           date |-> NoDate, level |-> 2,
                           medication_name |-> None, scheduled_time |-> NoTime]),
               !.out = notify_nurse(st.out, p),
               !.stats.new_escalations = @ + 1]
       ELSE st

\* check_missed_actions, line 161: scheduled_time.split(":") raises on a
\* times entry that is not a string
item_raises(it) ==
    /\ it.kind = "med"
    /\ ~Splits(rules[it.patient_id][it.rule].times[it.k])

step_item(st, it) ==
    IF it.kind = "weight" THEN step_weight(st, it.patient_id)
    ELSE IF it.kind = "med" THEN step_med(st, it.patient_id, it.rule, it.k)
    ELSE step_consec(st, it.patient_id)

-----------------------------------------------------------------------------
(* Threshold checks and auto-resolve *)

\* escalation._create_weight_escalation
create_weight_escalation(st, p, trigger_type) ==
    [st EXCEPT
       !.esc = create_escalation(st.esc,
                  [patient_id |-> p, trigger_type |-> trigger_type,
                   date |-> NoDate, level |-> 2,
                   medication_name |-> None, scheduled_time |-> NoTime]),
       !.out = notify_caregiver(notify_nurse(st.out, p), p),
       !.alert = trigger_type]

\* escalation.check_weight_thresholds; ylog holds the value of the log the query
\* for yesterday returns last and wlog that of the log the query for 7 days ago
\* returns first (the empty tuple when that query returns nothing)
check_weight_thresholds(st, p, new_weight, ylog, wlog) ==
    IF p \notin DOMAIN patients THEN st
    ELSE IF ylog # <<>> /\ new_weight - ylog[1] >= patients[p].weight_gain_trigger_24h_kg
    THEN create_weight_escalation(st, p, "weight_spike_24h")
    ELSE IF wlog # <<>> /\ new_weight - wlog[1] >= patients[p].weight_gain_trigger_7d_kg
    THEN create_weight_escalation(st, p, "weight_spike_7d")
    ELSE st

\* str.lower on the characters of the model's alphabet
LowerChar(c) == IF c = "C" THEN "c" ELSE IF c = "P" THEN "p" ELSE c

\* s.lower()
lower(s) == [i \in 1..Len(s) |-> LowerChar(s[i])]

\* Python's a in b for strings: a is a contiguous part of b
IsIn(a, b) ==
    \E i \in 0..(Len(b) - Len(a)) : \A j \in 1..Len(a) : b[i + j] = a[j]

\* a match that only looks for the keyword inside the reported symptom
red_flag_matches_keyword_in_symptom(red_zone, symptoms) ==
    LET rz_lower == {lower(red_zone[i]) : i \in 1..Len(red_zone)}
        hit(s) == \E rz \in rz_lower : IsIn(rz, lower(s))
    IN SelectSeq(symptoms, hit)

\* escalation.check_symptom_red_flags, line 82: the reported symptoms, in lower
\* case, that contain or are contained in a red-zone keyword
red_flag_matches(red_zone, symptoms) ==
    LET rz_lower == {lower(red_zone[i]) : i \in 1..Len(red_zone)}
        hit(s) == \E rz \in rz_lower : IsIn(rz, lower(s)) \/ IsIn(lower(s), rz)
    IN SelectSeq(symptoms, hit)

\* escalation.check_symptom_red_flags
check_symptom_red_flags(st, p, symptoms) ==
    IF p \notin DOMAIN patients THEN st
    ELSE IF red_flag_matches(patients[p].red_zone, symptoms) # <<>>
    THEN [st EXCEPT
            !.esc = create_escalation(st.esc,
                       [patient_id |-> p, trigger_type |-> "red_flag",
                        date |-> NoDate, level |-> 2,
                        medication_name |-> None, scheduled_time |-> NoTime]),
            !.out = notify_caregiver(notify_nurse(st.out, p), p),
            !.alert = "red_flag"]
    ELSE st

\* a trigger map whose weight entry lacks consecutive_missed_weight
trigger_map_missed_only(action_type) ==
    IF action_type = "weight" THEN {"missed_weight"}
    ELSE IF action_type = "medication" THEN {"missed_medication"}
    ELSE IF action_type = "symptom_check" THEN {"missed_symptom_check"}
    ELSE {}

\* escalation.resolve_escalations_for_action, lines 290-294
trigger_map(action_type) ==
    IF action_type = "weight" THEN {"missed_weight", "consecutive_missed_weight"}
    ELSE IF action_type = "medication" THEN {"missed_medication"}
    ELSE IF action_type = "symptom_check" THEN {"missed_symptom_check"}
    ELSE {}

\* a resolve that does not filter medication escalations by medication name
to_resolve_any_medication(esc, p, action_type, med) ==
    {i \in get_open_escalations(esc, p) :
        esc[i].trigger_type \in trigger_map(action_type)}

\* escalation.resolve_escalations_for_action: the open escalations it resolves
to_resolve(esc, p, action_type, med) ==
    {i \in get_open_escalations(esc, p) :
        /\ esc[i].trigger_type \in trigger_map(action_type)
        /\ (action_type = "medication" /\ med # None
              => esc[i].medication_name = med)}

\* escalation.resolve_escalations_for_action
resolve_escalations_for_action(st, p, action_type, med) ==
    LET ids == to_resolve(st.esc, p, action_type, med)
    IN [st EXCEPT
          !.esc = [i \in DOMAIN st.esc |->
                     IF i \in ids
                     THEN resolve_escalation(st.esc, i, "patient_action")[i]
                     ELSE st.esc[i]],
          !.resolved = Cardinality(ids)]


-----------------------------------------------------------------------------
(* Operations *)

ZeroStats == [checked |-> 0, new_escalations |-> 0, level_ups |-> 0]

Idle == [pc |-> "idle", todo |-> <<>>, stats |-> ZeroStats, start |-> <<>>]

NoResp == [op |-> None, patient_id |-> None, code |-> 0, resolved |-> 0,
           alert |-> None, stats |-> ZeroStats]

\* the two slots for concurrent cron invocations
Procs == {1, 2}

SchedStats == [evaluated |-> 0, sent |-> 0, skipped |-> 0, failed |-> 0]

\* no evaluate_and_send_reminders invocation is in progress
IdleSched == [pc |-> "idle", todo |-> <<>>, at |-> 0, stats |-> SchedStats]

NoSched == [i \in Procs |-> IdleSched]

\* no overlapping check_missed_actions invocation is in progress
IdleChk == [pc |-> "idle", todo |-> <<>>, found |-> <<>>]

NoChk == [i \in Procs |-> IdleChk]

\* what an operation starts from
Begin == [esc |-> escalations, notif |-> notifications, out |-> <<>>,
          stats |-> ZeroStats, alert |-> None, resolved |-> 0]

\* the clock moves on to instant t; no operation is in progress
Advance(t) ==
    /\ pass.pc = "idle"
    /\ t > now
    /\ now' = t
    /\ outbox' = <<>>
    /\ resp' = NoResp
    /\ UNCHANGED <<sched_runs, chk_runs, request, gw, patients, rules, vital_logs, medication_logs, escalations,
                   notifications, pass, used>>

\* main.cron_escalation_check -> escalation.check_missed_actions, lines 131-137
check_missed_actions_begin ==
    /\ pass.pc = "idle"
    /\ used < MaxCalls
    /\ used' = used + 1
    /\ pass' = [pc |-> "run", todo |-> PassItems(1), stats |-> ZeroStats,
                start |-> [i \in DOMAIN escalations |-> escalations[i].level]]
    /\ outbox' = <<>>
    /\ resp' = NoResp
    /\ UNCHANGED <<sched_runs, chk_runs, request, now, gw, patients, rules, vital_logs, medication_logs,
                   escalations, notifications>>

\* check_missed_actions: the next check of its loops
check_missed_actions_step ==
    /\ pass.pc = "run"
    /\ pass.todo # <<>>
    /\ IF item_raises(Head(pass.todo))
       THEN /\ pass' = Idle
            /\ resp' = [NoResp EXCEPT !.op = "check_missed_actions",
                                      !.code = SERVER_ERROR]
            /\ UNCHANGED <<escalations, notifications, outbox>>
       ELSE LET st == step_item([Begin EXCEPT !.out = outbox, !.stats = pass.stats],
                                Head(pass.todo))
            IN /\ escalations' = st.esc
               /\ notifications' = st.notif
               /\ outbox' = st.out
               /\ pass' = [pass EXCEPT !.todo = Tail(@), !.stats = st.stats]
               /\ resp' = resp
    /\ UNCHANGED <<sched_runs, chk_runs, request, now, gw, patients, rules, vital_logs, medication_logs, used>>

\* check_missed_actions, lines 209-210: the counters are returned
check_missed_actions_end ==
    /\ pass.pc = "run"
    /\ pass.todo = <<>>
    /\ resp' = [NoResp EXCEPT !.op = "check_missed_actions", !.code = 200,
                              !.stats = pass.stats]
    /\ pass' = Idle
    /\ UNCHANGED <<sched_runs, chk_runs, request, now, gw, patients, rules, vital_logs, medication_logs,
                   escalations, notifications, outbox, used>>

\* firestore_client.log_vital: the document is dated with the UTC date
log_vital(logs, p, vital_type, value, symptoms) ==
    logs \cup {[patient_id |-> p, type |-> vital_type, value |-> value,
                symptoms |-> symptoms, logged_at |-> now, date |-> today_iso(now)]}

\* the values a query of weight logs may return at one end of its result
EndOf(logs) == IF logs = {} THEN {<<>>} ELSE {<<v.value>> : v \in logs}

\* main.log_patient_vital
log_patient_vital(p, vital_type, value, symptoms) ==
    /\ pass.pc = "idle"
    /\ used < MaxCalls
    /\ used' = used + 1
    /\ IF p \notin DOMAIN patients
       THEN /\ resp' = [NoResp EXCEPT !.op = "log_patient_vital", !.patient_id = p,
                                      !.code = 404]
            /\ outbox' = <<>>
            /\ UNCHANGED <<vital_logs, escalations, notifications>>
       ELSE LET logs == log_vital(vital_logs, p, vital_type, value, symptoms)
                yesterday == strftime_date(ist_now(now) - DAY)
                seven_days_ago == strftime_date(ist_now(now) - WEEK_DAYS * DAY)
                st1 == resolve_escalations_for_action(Begin, p, vital_type, None)
            IN /\ vital_logs' = logs
               /\ \E ylog \in EndOf(get_vitals_for_date(logs, p, yesterday, "weight")),
                     wlog \in EndOf(get_vitals_for_date(logs, p, seven_days_ago, "weight")) :
                    LET st2 == IF vital_type = "weight"
                               THEN check_weight_thresholds(st1, p, value, ylog, wlog)
                               ELSE st1
                        st3 == IF vital_type = "symptom_check" /\ symptoms # <<>>
                               THEN check_symptom_red_flags(st2, p, symptoms)
                               ELSE st2
                    IN /\ escalations' = st3.esc
                       /\ notifications' = st3.notif
                       /\ outbox' = st3.out
                       /\ resp' = [NoResp EXCEPT !.op = "log_patient_vital",
                                      !.patient_id = p, !.code = 200,
                                      !.resolved = st3.resolved,
                                      !.alert = st3.alert]
    /\ UNCHANGED <<sched_runs, chk_runs, request, now, gw, patients, rules, medication_logs, pass>>

\* escalation.check_weight_thresholds called on its own: for a patient that
\* does not exist it returns None, as it does when no threshold is exceeded
weight_threshold_check(p, new_weight) ==
    /\ pass.pc = "idle"
    /\ used < MaxCalls
    /\ used' = used + 1
    /\ LET yesterday == strftime_date(ist_now(now) - DAY)
           seven_days_ago == strftime_date(ist_now(now) - WEEK_DAYS * DAY)
       IN \E ylog \in EndOf(get_vitals_for_date(vital_logs, p, yesterday, "weight")),
             wlog \in EndOf(get_vitals_for_date(vital_logs, p, seven_days_ago, "weight")) :
            LET st == check_weight_thresholds(Begin, p, new_weight, ylog, wlog)
            IN /\ escalations' = st.esc
               /\ notifications' = st.notif
               /\ outbox' = st.out
               /\ resp' = [NoResp EXCEPT !.op = "check_weight_thresholds",
                                         !.patient_id = p, !.alert = st.alert]
    /\ UNCHANGED <<sched_runs, chk_runs, request, now, gw, patients, rules, vital_logs,
                   medication_logs, pass>>

\* firestore_client.log_medication
log_medication(logs, p, medication_name, scheduled_time, status) ==
    logs \cup {[patient_id |-> p, medication_name |-> medication_name,
                scheduled_time |-> scheduled_time, status |-> status,
                acknowledged_at |-> IF status = "taken" THEN now ELSE NoDate,
                date |-> today_iso(now)]}

\* main.acknowledge_medication
acknowledge_medication(p, medication_name, scheduled_time, status) ==
    /\ pass.pc = "idle"
    /\ used < MaxCalls
    /\ used' = used + 1
    /\ IF p \notin DOMAIN patients
       THEN /\ resp' = [NoResp EXCEPT !.op = "acknowledge_medication",
                                      !.patient_id = p, !.code = 404]
            /\ UNCHANGED <<medication_logs, escalations>>
       ELSE LET logs == log_medication(medication_logs, p, medication_name,
                                       scheduled_time, status)
                st == IF status = "taken"
                      THEN resolve_escalations_for_action(Begin, p, "medication",
                                                          medication_name)
                      ELSE Begin
            IN /\ medication_logs' = logs
               /\ escalations' = st.esc
               /\ resp' = [NoResp EXCEPT !.op = "acknowledge_medication",
                              !.patient_id = p, !.code = 200,
                              !.resolved = st.resolved]
    /\ outbox' = <<>>
    /\ UNCHANGED <<sched_runs, chk_runs, request, now, gw, patients, rules, vital_logs, notifications, pass>>


\* main.acknowledge_alert: the operator resolves escalation id
acknowledge_alert(id) ==
    /\ pass.pc = "idle"
    /\ used < MaxCalls
    /\ used' = used + 1
    /\ IF id \in DOMAIN escalations
       THEN /\ escalations' = resolve_escalation(escalations, id, "nurse_ack")
            /\ resp' = [NoResp EXCEPT !.op = "acknowledge_alert", !.code = 200]
       ELSE /\ escalations' = escalations
            /\ resp' = [NoResp EXCEPT !.op = "acknowledge_alert",
                                      !.code = SERVER_ERROR]
    /\ outbox' = <<>>
    /\ UNCHANGED <<sched_runs, chk_runs, request, now, gw, patients, rules, vital_logs, medication_logs,
                   notifications, pass>>

\* firestore_client.resolve_escalation_with_details
resolve_escalation_with_details(esc, id) ==
    [esc EXCEPT ![id].status = "resolved", ![id].resolved_by = "nurse"]

\* main.resolve_alert_with_details
resolve_alert_with_details(id) ==
    /\ pass.pc = "idle"
    /\ used < MaxCalls
    /\ used' = used + 1
    /\ IF id \in DOMAIN escalations
       THEN /\ escalations' = resolve_escalation_with_details(escalations, id)
            /\ resp' = [NoResp EXCEPT !.op = "resolve_alert_with_details",
                                      !.code = 200]
       ELSE /\ escalations' = escalations
            /\ resp' = [NoResp EXCEPT !.op = "resolve_alert_with_details",
                                      !.code = SERVER_ERROR]
    /\ outbox' = <<>>
    /\ UNCHANGED <<sched_runs, chk_runs, request, now, gw, patients, rules, vital_logs, medication_logs,
                   notifications, pass>>


-----------------------------------------------------------------------------
(* The escalation lifecycle: one day of a patient *)

Patient(phone, caregiver_phone, nurse_phone, red_zone) ==
    [status |-> "active", phone |-> phone, caregiver_phone |-> caregiver_phone,
     nurse_phone |-> nurse_phone, push |-> TRUE, sms |-> TRUE, device_tokens |-> 0,
     weight_gain_trigger_24h_kg |-> 1, weight_gain_trigger_7d_kg |-> 2,
     red_zone |-> red_zone]

\* reminder_engine.generate_reminder_rules, lines 123-135: a medication rule
MedicationRule(id, medication_name, times) ==
    [id |-> id, type |-> "medication", times |-> times, days |-> "daily",
     medication_name |-> medication_name, after_minutes |-> DEFAULT_AFTER_MINUTES,
     active |-> TRUE, target |-> None]

ChestPain == <<"c", "p">>

Patients0 == [p \in {"p1"} |-> Patient("ph1", "cg1", "n1", <<ChestPain>>)]

Rules0 ==
    [p \in {"p1"} |->
        <<MedicationRule("r1", "Aspirin", <<<<8, 0>>, <<21, 0>>>>),
          MedicationRule("r2", "Metformin", <<<<21, 0>>>>)>>]

\* a weight log written at instant t (firestore_client.log_vital)
WeightLog(p, t, w) ==
    [patient_id |-> p, type |-> "weight", value |-> w, symptoms |-> <<>>,
     logged_at |-> t, date |-> today_iso(t)]

Instants ==
    {AtIST(10, 10, 5), AtIST(10, 10, 10), AtIST(10, 12, 30), AtIST(10, 22, 30)}

Weights == {70, 72}
SymptomReports == {<<<<"x", "C", "P">>>>, <<<<"x">>>>}
Doses == {<<"Aspirin", <<8, 0>>, "taken">>, <<"Aspirin", <<8, 0>>, "skipped">>,
          <<"Metformin", <<21, 0>>, "taken">>}

Init ==
    /\ now = AtIST(10, 10, 5)
    /\ gw = [fcm |-> TRUE, sms |-> TRUE]
    /\ patients = Patients0
    /\ rules = Rules0
    /\ vital_logs \in {{}, {WeightLog("p1", AtIST(9, 9, 0), 70)},
                         {WeightLog("p1", AtIST(3, 9, 0), 70)}}
    /\ medication_logs = {}
    /\ escalations = <<>>
    /\ notifications = <<>>
    /\ outbox = <<>>
    /\ pass = Idle
    /\ used = 0
    /\ request = <<>>
    /\ sched_runs = NoSched
    /\ chk_runs = NoChk
    /\ resp = NoResp

Next ==
    \/ \E t \in Instants : Advance(t)
    \/ check_missed_actions_begin
    \/ check_missed_actions_step
    \/ check_missed_actions_end
    \/ \E w \in Weights : log_patient_vital("p1", "weight", w, <<>>)
    \/ \E s \in SymptomReports : log_patient_vital("p1", "symptom_check", 0, s)
    \/ \E d \in Doses : acknowledge_medication("p1", d[1], d[2], d[3])
    \/ \E id \in DOMAIN escalations : acknowledge_alert(id)
    \/ \E id \in DOMAIN escalations : resolve_alert_with_details(id)

Spec == Init /\ [][Next]_vars


-----------------------------------------------------------------------------
(* Properties of the escalation lifecycle *)

Level2Triggers == {"weight_spike_24h", "weight_spike_7d", "red_flag",
                   "consecutive_missed_weight"}
Level0Triggers == {"missed_weight", "missed_medication"}

Open(i) == escalations[i].status = "open"

\* the calendar date an escalation belongs to: its date field, or (the level-2
\* triggers carry none) the patient-local date of its creation
EscDate(e) == IF e.date # NoDate THEN e.date ELSE strftime_date(ist_now(e.created_at))

SameKey(e, f) ==
    /\ e.patient_id = f.patient_id
    /\ e.trigger_type = f.trigger_type
    /\ EscDate(e) = EscDate(f)
    /\ e.medication_name = f.medication_name

\* C1: in every reachable state there is at most one open escalation for a
\* given (patient, trigger type, date, medication name), the level-2 triggers
\* included.
C1_OneOpenPerKey ==
    \A i, j \in DOMAIN escalations :
        (i # j /\ Open(i) /\ Open(j)) => ~SameKey(escalations[i], escalations[j])

\* C2: in every step the level of every escalation stays or rises by exactly
\* one (0 to 1, 1 to 2): it never decreases and never goes from 0 to 2.
C2_LevelSteps ==
    [][\A i \in DOMAIN escalations :
          /\ i \in DOMAIN escalations'
          /\ \/ escalations'[i].level = escalations[i].level
             \/ /\ escalations'[i].level = escalations[i].level + 1
                /\ escalations[i].level \in {0, 1}]_vars

\* an escalation created at level 0 has been promoted, one step at a time, to 2
C2_Witness ==
    \E i \in DOMAIN escalations :
        /\ escalations[i].trigger_type \in Level0Triggers
        /\ escalations[i].level = 2

\* C3: every escalation is created open; at level 2 when its trigger is
\* weight_spike_24h, weight_spike_7d, red_flag or consecutive_missed_weight,
\* at level 0 when it is missed_weight or missed_medication; there is no
\* other trigger and no other creation level.
C3_CreationLevel ==
    [][\A i \in DOMAIN escalations' \ DOMAIN escalations :
          LET e == escalations'[i]
          IN /\ e.status = "open"
             /\ \/ e.trigger_type \in Level2Triggers /\ e.level = 2
                \/ e.trigger_type \in Level0Triggers /\ e.level = 0]_vars

\* escalations of both kinds have been created
C3_Witness ==
    /\ \E i \in DOMAIN escalations :
          escalations[i].trigger_type = "consecutive_missed_weight"
    /\ \E i \in DOMAIN escalations : escalations[i].trigger_type = "red_flag"
    /\ \E i \in DOMAIN escalations :
          escalations[i].trigger_type = "missed_medication"

\* the check the pass is about to make is a missed action, and which
HeadItem == Head(pass.todo)
HeadMissed ==
    /\ pass.pc = "run" /\ pass.todo # <<>>
    /\ \/ HeadItem.kind = "weight" /\ weight_missed(HeadItem.patient_id)
       \/ HeadItem.kind = "med"
          /\ med_missed(HeadItem.patient_id, HeadItem.rule, HeadItem.k)
HeadExisting ==
    IF HeadItem.kind = "weight"
    THEN existing_escalation(escalations, HeadItem.patient_id, "missed_weight",
                             strftime_date(ist_now(now)), None)
    ELSE existing_escalation(escalations, HeadItem.patient_id, "missed_medication",
                             strftime_date(ist_now(now)),
                             rules[HeadItem.patient_id][HeadItem.rule].medication_name)

\* the level the specification gives an escalation of that level after the
\* real time elapsed since its creation
LevelByElapsed(level, elapsed) ==
    IF level = 0 /\ elapsed >= LEVEL1_AGE THEN 1
    ELSE IF level = 1 /\ elapsed >= LEVEL2_AGE THEN 2
    ELSE level

\* C4: handle-missed-action promotes an open escalation from 0 to 1 exactly
\* when the real time elapsed since its creation is at least 120 minutes, from
\* 1 to 2 exactly when it is at least 240 minutes, and otherwise leaves the
\* level unchanged.
C4_PromotionByElapsed ==
    [][(HeadMissed /\ HeadExisting # 0) =>
          escalations'[HeadExisting].level =
              LevelByElapsed(escalations[HeadExisting].level,
                             now - escalations[HeadExisting].created_at)]_vars

\* C5: within one invocation of check-missed-actions the level of an
\* escalation rises by at most one step.
C5_OneStepPerPass ==
    pass.pc = "run" =>
        \A i \in DOMAIN pass.start : escalations[i].level <= pass.start[i] + 1

\* C6: a resolved escalation stays resolved, and no escalation record is ever
\* removed or turned into another one.
C6_ResolvedIsTerminal ==
    [][\A i \in DOMAIN escalations :
          /\ i \in DOMAIN escalations'
          /\ escalations'[i].patient_id = escalations[i].patient_id
          /\ escalations'[i].trigger_type = escalations[i].trigger_type
          /\ escalations'[i].created_at = escalations[i].created_at
          /\ (escalations[i].status = "resolved"
                => escalations'[i].status = "resolved")]_vars

\* one escalation resolved by the patient's action and one by the operator,
\* and a later pass has run
C6_Witness ==
    /\ \E i \in DOMAIN escalations :
          /\ escalations[i].status = "resolved"
          /\ escalations[i].resolved_by = "patient_action"
    /\ resp.op = "check_missed_actions"

\* C7: acknowledging medication M as taken resolves exactly the patient's open
\* missed_medication escalations for M; every other escalation is unchanged.
C7_ResolveSameMedication ==
    [][\A p \in DOMAIN patients, d \in Doses :
          (d[3] = "taken" /\ acknowledge_medication(p, d[1], d[2], d[3])) =>
              /\ DOMAIN escalations' = DOMAIN escalations
              /\ \A i \in DOMAIN escalations :
                    IF /\ Open(i)
                       /\ escalations[i].patient_id = p
                       /\ escalations[i].trigger_type = "missed_medication"
                       /\ escalations[i].medication_name = d[1]
                    THEN escalations'[i].status = "resolved"
                    ELSE escalations'[i] = escalations[i]]_vars

\* Aspirin was acknowledged: its escalation is resolved, that of Metformin and
\* one of another trigger are still open
C7_Witness ==
    /\ resp.op = "acknowledge_medication" /\ resp.resolved = 1
    /\ \E i \in DOMAIN escalations :
          /\ escalations[i].medication_name = "Aspirin"
          /\ escalations[i].status = "resolved"
    /\ \E i \in DOMAIN escalations :
          /\ escalations[i].medication_name = "Metformin" /\ Open(i)
    /\ \E i \in DOMAIN escalations :
          /\ escalations[i].trigger_type = "consecutive_missed_weight" /\ Open(i)


AllWeights == {70, 71, 72}

\* the open escalations of patient p with a trigger among ts
OpenOf(p, ts) ==
    {i \in DOMAIN escalations :
        Open(i) /\ escalations[i].patient_id = p /\ escalations[i].trigger_type \in ts}

\* the request resolved exactly the escalations R, with reason patient action,
\* returned their number and left every other escalation as it was
ResolvedExactly(R) ==
    /\ \A i \in DOMAIN escalations :
          /\ i \in DOMAIN escalations'
          /\ IF i \in R
             THEN /\ escalations'[i].status = "resolved"
                  /\ escalations'[i].resolved_by = "patient_action"
             ELSE escalations'[i] = escalations[i]
    /\ resp'.resolved = Cardinality(R)

\* C8: logging a weight resolves every open missed_weight and
\* consecutive_missed_weight escalation of the patient with reason patient
\* action, completing a symptom check every open missed_symptom_check one; the
\* returned count is the number resolved and every other escalation (red_flag,
\* weight spikes, missed_medication) stays as it was.
C8_ResolveByVital ==
    [][\A p \in DOMAIN patients :
          /\ \A w \in AllWeights :
                log_patient_vital(p, "weight", w, <<>>) =>
                    ResolvedExactly(OpenOf(p, {"missed_weight",
                                               "consecutive_missed_weight"}))
          /\ \A s \in SymptomReports \cup {request} :
                log_patient_vital(p, "symptom_check", 0, s) =>
                    ResolvedExactly(OpenOf(p, {"missed_symptom_check"}))]_vars

\* a weight log resolved the missed_weight and the consecutive_missed_weight
\* escalation and left a missed_medication escalation open
C8_Witness ==
    /\ resp.op = "log_patient_vital" /\ resp.resolved = 2
    /\ \E i \in DOMAIN escalations :
          /\ escalations[i].trigger_type = "missed_weight"
          /\ escalations[i].status = "resolved"
          /\ escalations[i].resolved_by = "patient_action"
    /\ \E i \in DOMAIN escalations :
          /\ escalations[i].trigger_type = "consecutive_missed_weight"
          /\ escalations[i].status = "resolved"
    /\ \E i \in DOMAIN escalations :
          /\ escalations[i].trigger_type = "missed_medication" /\ Open(i)


-----------------------------------------------------------------------------
(* Weight logs around midnight: the day of a log against the day of the engine *)

\* 04:00 and 09:00 local time on two consecutive days
WeightInstants ==
    {AtIST(10, 4, 0), AtIST(10, 9, 0), AtIST(11, 4, 0), AtIST(11, 9, 0)}

InitWeight ==
    /\ now = AtIST(10, 4, 0)
    /\ gw = [fcm |-> TRUE, sms |-> TRUE]
    /\ patients = Patients0
    /\ rules = [p \in {"p1"} |-> <<>>]
    /\ vital_logs \in {{}, {WeightLog("p1", AtIST(4, 9, 0), 70)}}
    /\ medication_logs = {}
    /\ escalations = <<>>
    /\ notifications = <<>>
    /\ outbox = <<>>
    /\ pass = Idle
    /\ used = 0
    /\ request = <<>>
    /\ sched_runs = NoSched
    /\ chk_runs = NoChk
    /\ resp = NoResp

NextWeight ==
    \/ \E t \in WeightInstants : Advance(t)
    \/ \E w \in AllWeights : log_patient_vital("p1", "weight", w, <<>>)

SpecWeight == InitWeight /\ [][NextWeight]_vars

\* the weights patient p logged on local day d
WeightsLoggedOn(p, d) ==
    {v \in vital_logs : /\ v.patient_id = p /\ v.type = "weight"
                        /\ strftime_date(ist_now(v.logged_at)) = d}

\* the escalations a step has added
Added == SubSeq(escalations', Len(escalations) + 1, Len(escalations'))

\* C9: logging a weight on local day D that is at least yesterday's logged
\* weight plus the 24-hour threshold creates exactly one escalation, open at
\* level 2 with trigger weight_spike_24h; a weight whose gain over yesterday's
\* is below the 24-hour threshold and whose gain over the weight of 7 days ago
\* is below the 7-day threshold creates none.
C9_WeightSpike24h ==
    [][\A p \in DOMAIN patients : \A w \in AllWeights :
          log_patient_vital(p, "weight", w, <<>>) =>
              LET D == strftime_date(ist_now(now))
                  yesterday == WeightsLoggedOn(p, D - 1)
                  week_ago == WeightsLoggedOn(p, D - WEEK_DAYS)
                  t24 == patients[p].weight_gain_trigger_24h_kg
                  t7 == patients[p].weight_gain_trigger_7d_kg
              IN /\ (yesterday # {} /\ \A v \in yesterday : w >= v.value + t24)
                      => /\ Len(Added) = 1
                         /\ Added[1].trigger_type = "weight_spike_24h"
                         /\ Added[1].status = "open"
                         /\ Added[1].level = 2
                 /\ ((\A v \in yesterday : w - v.value < t24)
                        /\ (\A v \in week_ago : w - v.value < t7))
                      => Added = <<>>]_vars

-----------------------------------------------------------------------------
(* Red-flag matching as a function of the keyword list and the report *)

MaxWord == 2

Alphabet == {"c", "C", "p"}

\* the strings of at most MaxWord characters
Words == UNION {[1..n -> Alphabet] : n \in 0..MaxWord}

\* no string, one string, or a fixed string followed by one string
Lists == {<<>>} \cup {<<w>> : w \in Words} \cup {<<<<"p", "p">>, w>> : w \in Words}

InitRedFlag ==
    /\ now = AtIST(10, 10, 5)
    /\ gw \in {[fcm |-> TRUE, sms |-> TRUE], [fcm |-> TRUE, sms |-> FALSE]}
    /\ patients \in {[p \in {"p1"} |-> Patient("ph1", cg, n, rz)] :
                        cg \in {None, "cg1"}, n \in {None, "n1"}, rz \in Lists}
    /\ rules = [p \in {"p1"} |-> <<>>]
    /\ vital_logs = {}
    /\ medication_logs = {}
    /\ escalations = <<>>
    /\ notifications = <<>>
    /\ outbox = <<>>
    /\ pass = Idle
    /\ used = 0
    /\ request \in Lists
    /\ sched_runs = NoSched
    /\ chk_runs = NoChk
    /\ resp = NoResp

NextRedFlag == log_patient_vital("p1", "symptom_check", 0, request)

SpecRedFlag == InitRedFlag /\ [][NextRedFlag]_vars

\* two characters that differ at most in case
SameLetter(x, y) == x = y \/ {x, y} = {"c", "C"} \/ {x, y} = {"p", "P"}

\* string a occurs in string b when case is ignored
OccursIn(a, b) ==
    \E lo \in 1..(Len(b) + 1) :
        /\ lo + Len(a) - 1 <= Len(b)
        /\ \A k \in 1..Len(a) : SameLetter(a[k], b[lo + k - 1])

\* some reported symptom contains or is contained in some red-zone keyword
RedZoneHit(p, symptoms) ==
    \E i \in 1..Len(symptoms), k \in 1..Len(patients[p].red_zone) :
        \/ OccursIn(patients[p].red_zone[k], symptoms[i])
        \/ OccursIn(symptoms[i], patients[p].red_zone[k])

\* whom the request has sent a message to
Notified == {outbox'[i].to : i \in 1..Len(outbox')}

-----------------------------------------------------------------------------
(* Rule Scheduler: notifications.evaluate_and_send_reminders *)

\* |a - b|
Abs(a, b) == IF a >= b THEN a - b ELSE b - a

\* the tolerance the comment of _is_rule_due speaks of, minutes
DUE_WINDOW_IN_COMMENT == 5

\* the tolerance of _is_rule_due, minutes
DUE_WINDOW == 2

\* notifications._is_rule_due; the days of a rule are "daily", "weekly" or
\* "list", the explicit dates of a list being the rule's dates
is_rule_due(current_time, today, rule) ==
    LET current_minutes == MinutesOf(current_time)
        time_match == \E k \in 1..Len(rule.times) :
                          /\ Parses(rule.times[k])
                          /\ Abs(current_minutes, MinutesOf(rule.times[k])) <= DUE_WINDOW
    IN /\ time_match
       /\ (rule.days = "list" => today \in rule.dates)

\* notifications._is_rule_due, lines 198-206: the loop over the times raises
\* at an entry that is not a string, unless a match has ended it before
is_rule_due_raises(current_time, rule) ==
    \E k \in 1..Len(rule.times) :
        /\ ~Splits(rule.times[k])
        /\ \A j \in 1..(k - 1) :
              ~(/\ Parses(rule.times[j])
                /\ Abs(MinutesOf(current_time), MinutesOf(rule.times[j])) <= DUE_WINDOW)

\* a lookup that only counts the notifications that went out
get_notifications_sent_for_date(notif, p, d, rule_id) ==
    {k \in DOMAIN notif : /\ notif[k].patient_id = p
                          /\ notif[k].date = d
                          /\ notif[k].status = "sent"
                          /\ (rule_id # None => notif[k].rule_id = rule_id)}

\* firestore_client.get_notifications_for_date(patient_id, date_iso, rule_id)
get_notifications_for_date(notif, p, d, rule_id) ==
    {k \in DOMAIN notif : /\ notif[k].patient_id = p
                          /\ notif[k].date = d
                          /\ (rule_id # None => notif[k].rule_id = rule_id)}

\* a query of the rules that also returns those switched off
RECURSIVE RuleEntriesAll(_, _)
RuleEntriesAll(p, r) ==
    IF r > Len(rules[p]) THEN <<>>
    ELSE <<[patient_id |-> p, rule |-> r]>> \o RuleEntriesAll(p, r + 1)

\* evaluate_and_send_reminders, lines 146-150: one entry per active rule of
\* every active patient
RECURSIVE RuleEntries(_, _)
RuleEntries(p, r) ==
    IF r > Len(rules[p]) THEN <<>>
    ELSE (IF rules[p][r].active THEN <<[patient_id |-> p, rule |-> r]>> ELSE <<>>)
         \o RuleEntries(p, r + 1)

RECURSIVE SchedItems(_)
SchedItems(i) ==
    IF i > Len(PatientOrder) THEN <<>>
    ELSE (IF PatientOrder[i] \in DOMAIN patients
             /\ patients[PatientOrder[i]].status = "active"
          THEN RuleEntries(PatientOrder[i], 1) ELSE <<>>) \o SchedItems(i + 1)

\* evaluate_and_send_reminders, lines 136-145: the clock is read once
evaluate_begin(i) ==
    /\ pass.pc = "idle"
    /\ sched_runs[i].pc = "idle"
    /\ used < MaxCalls
    /\ used' = used + 1
    /\ sched_runs' = [sched_runs EXCEPT ![i] =
                         [pc |-> "check", todo |-> SchedItems(1), at |-> now,
                          stats |-> SchedStats]]
    /\ UNCHANGED <<now, gw, patients, rules, vital_logs, medication_logs, escalations,
                   notifications, outbox, pass, request, chk_runs, resp>>

\* main.cron_evaluate_reminders while no other invocation is in progress
cron_evaluate_reminders(i) ==
    /\ \A j \in Procs : sched_runs[j].pc = "idle"
    /\ evaluate_begin(i)

\* a scheduler that sends every due rule to the patient, whomever it is for
evaluate_check_any_target(i) ==
    /\ sched_runs[i].pc = "check"
    /\ sched_runs[i].todo # <<>>
    /\ LET it == Head(sched_runs[i].todo)
           rule == rules[it.patient_id][it.rule]
           ist == ist_now(sched_runs[i].at)
           due == is_rule_due(strftime_hm(ist), strftime_date(ist), rule)
           existing == get_notifications_for_date(notifications, it.patient_id,
                                                  strftime_date(ist), rule.id)
           skip == due /\ existing # {}
       IN sched_runs' = [sched_runs EXCEPT
                           ![i].stats.evaluated = @ + 1,
                           ![i].stats.skipped = IF skip THEN @ + 1 ELSE @,
                           ![i].todo = IF due /\ ~skip THEN @ ELSE Tail(@),
                           ![i].pc = IF due /\ ~skip THEN "send" ELSE "check"]
    /\ UNCHANGED <<now, gw, patients, rules, vital_logs, medication_logs, escalations,
                   notifications, outbox, pass, used, request, chk_runs, resp>>

\* evaluate_and_send_reminders, lines 150-173: the rule is counted, then skipped
\* when it is not due, already notified today or meant for the nurse
evaluate_check(i) ==
    /\ sched_runs[i].pc = "check"
    /\ sched_runs[i].todo # <<>>
    /\ LET it == Head(sched_runs[i].todo)
           rule == rules[it.patient_id][it.rule]
           ist == ist_now(sched_runs[i].at)
           due == is_rule_due(strftime_hm(ist), strftime_date(ist), rule)
           existing == get_notifications_for_date(notifications, it.patient_id,
                                                  strftime_date(ist), rule.id)
           skip == due /\ (existing # {} \/ rule.target = "nurse")
       IN IF is_rule_due_raises(strftime_hm(ist), rule)
          THEN /\ sched_runs' = [sched_runs EXCEPT ![i] = IdleSched]
               /\ resp' = [NoResp EXCEPT !.op = "evaluate_and_send_reminders",
                                         !.code = SERVER_ERROR]
          ELSE /\ sched_runs' = [sched_runs EXCEPT
                                   ![i].stats.evaluated = @ + 1,
                                   ![i].stats.skipped = IF skip THEN @ + 1 ELSE @,
                                   ![i].todo = IF due /\ ~skip THEN @ ELSE Tail(@),
                                   ![i].pc = IF due /\ ~skip THEN "send" ELSE "check"]
               /\ resp' = resp
    /\ UNCHANGED <<now, gw, patients, rules, vital_logs, medication_logs, escalations,
                   notifications, outbox, pass, used, request, chk_runs>>

\* a scheduler that lets a failed dispatch end the invocation with an error
evaluate_send_abort(i) ==
    /\ sched_runs[i].pc = "send"
    /\ LET it == Head(sched_runs[i].todo)
           rule == rules[it.patient_id][it.rule]
           st == send_notification([Begin EXCEPT !.out = outbox], it.patient_id,
                                   rule.type, rule.id)
           channel == st.notif[Len(st.notif)].channel
       IN /\ notifications' = st.notif
          /\ outbox' = st.out
          /\ IF channel = "failed"
             THEN /\ sched_runs' = [sched_runs EXCEPT ![i] = IdleSched]
                  /\ resp' = [NoResp EXCEPT !.op = "evaluate_and_send_reminders",
                                            !.code = 500]
             ELSE /\ sched_runs' = [sched_runs EXCEPT
                                      ![i].stats.sent = @ + 1,
                                      ![i].todo = Tail(@),
                                      ![i].pc = "check"]
                  /\ resp' = resp
    /\ UNCHANGED <<now, gw, patients, rules, vital_logs, medication_logs, escalations,
                   pass, used, request, chk_runs>>

\* evaluate_and_send_reminders, lines 175-185: the dispatch of a due rule
evaluate_send(i) ==
    /\ sched_runs[i].pc = "send"
    /\ LET it == Head(sched_runs[i].todo)
           rule == rules[it.patient_id][it.rule]
           st == send_notification([Begin EXCEPT !.out = outbox], it.patient_id,
                                   rule.type, rule.id)
           channel == st.notif[Len(st.notif)].channel
       IN /\ notifications' = st.notif
          /\ outbox' = st.out
          /\ sched_runs' = [sched_runs EXCEPT
                              ![i].stats.sent = IF channel # "failed" THEN @ + 1 ELSE @,
                              ![i].stats.failed = IF channel = "failed" THEN @ + 1 ELSE @,
                              ![i].todo = Tail(@),
                              ![i].pc = "check"]
    /\ UNCHANGED <<now, gw, patients, rules, vital_logs, medication_logs, escalations,
                   pass, used, request, chk_runs, resp>>

\* evaluate_and_send_reminders, lines 187-188: the counters are returned
evaluate_end(i) ==
    /\ sched_runs[i].pc = "check"
    /\ sched_runs[i].todo = <<>>
    /\ resp' = [op |-> "evaluate_and_send_reminders", patient_id |-> None,
                code |-> 200, resolved |-> 0, alert |-> None,
                stats |-> sched_runs[i].stats]
    /\ sched_runs' = [sched_runs EXCEPT ![i] = IdleSched]
    /\ UNCHANGED <<now, gw, patients, rules, vital_logs, medication_logs, escalations,
                   notifications, outbox, pass, used, request, chk_runs>>

\* reminder_engine.generate_reminder_rules, lines 266-273: the nurse check-in
NurseCheckinRule(id, dates) ==
    [id |-> id, type |-> "nurse_checkin", times |-> <<<<10, 0>>>>, days |-> "list",
     dates |-> dates, medication_name |-> None, after_minutes |-> 0,
     active |-> TRUE, target |-> "nurse"]

RulesSched ==
    [p \in {"p1"} |->
        <<MedicationRule("r1", "Aspirin", <<<<8, 0>>, <<21, 0>>>>),
          MedicationRule("r2", "Metformin", <<<<21, 0>>>>),
          NurseCheckinRule("r3", {10})>>]

SchedInstants ==
    {AtIST(10, 7, 55), AtIST(10, 7, 58), AtIST(10, 8, 2), AtIST(10, 10, 0),
     AtIST(10, 21, 0), AtIST(11, 8, 0)}

InitSched ==
    /\ now = AtIST(10, 7, 55)
    /\ gw \in {[fcm |-> TRUE, sms |-> TRUE], [fcm |-> TRUE, sms |-> FALSE]}
    /\ patients = Patients0
    /\ rules = RulesSched
    /\ vital_logs = {}
    /\ medication_logs = {}
    /\ escalations = <<>>
    /\ notifications = <<>>
    /\ outbox = <<>>
    /\ pass = Idle
    /\ used = 0
    /\ request = <<>>
    /\ sched_runs = NoSched
    /\ chk_runs = NoChk
    /\ resp = NoResp

NextSched ==
    \/ \E t \in SchedInstants : Advance(t)
    \/ \E i \in Procs : cron_evaluate_reminders(i)
    \/ \E i \in Procs : evaluate_check(i)
    \/ \E i \in Procs : evaluate_send(i)
    \/ \E i \in Procs : evaluate_end(i)

SpecSched == InitSched /\ [][NextSched]_vars

\* the local day of an instant
LocalDay(t) == strftime_date(ist_now(t))

\* the dispatches recorded for rule r of patient p on local day d
Dispatches(p, r, d) ==
    {k \in DOMAIN notifications :
        /\ notifications[k].patient_id = p
        /\ notifications[k].rule_id = rules[p][r].id
        /\ LocalDay(notifications[k].sent_at) = d}

Days == {LocalDay(t) : t \in SchedInstants}

\* C11: across non-overlapping invocations of the Rule Scheduler on one day at
\* most one dispatch is made for a (patient, rule): an invocation that finds
\* the rule due and already notified today counts it as skipped and sends
\* nothing.
C11_OneDispatchPerRuleDay ==
    /\ [](\A p \in DOMAIN patients : \A r \in 1..Len(rules[p]) : \A d \in Days :
            Cardinality(Dispatches(p, r, d)) <= 1)
    /\ [][\A i \in Procs :
            (evaluate_check(i)
             /\ LET it == Head(sched_runs[i].todo)
                    ist == ist_now(sched_runs[i].at)
                IN /\ is_rule_due(strftime_hm(ist), strftime_date(ist),
                                  rules[it.patient_id][it.rule])
                   /\ Dispatches(it.patient_id, it.rule, LocalDay(sched_runs[i].at)) # {})
            => /\ sched_runs'[i].pc = "check"
               /\ sched_runs'[i].stats.skipped = sched_runs[i].stats.skipped + 1
               /\ UNCHANGED <<notifications, outbox>>]_vars

\* a second invocation inside the due window of 08:00 has skipped the rule the
\* first one dispatched
C11_Witness ==
    /\ now = AtIST(10, 8, 2)
    /\ resp.op = "evaluate_and_send_reminders"
    /\ resp.stats.skipped = 1 /\ resp.stats.sent = 0
    /\ Cardinality(Dispatches("p1", 1, 10)) = 1
    /\ \E k \in Dispatches("p1", 1, 10) : notifications[k].sent_at = AtIST(10, 7, 58)


-----------------------------------------------------------------------------
(* End to end: a missed morning dose *)

\* the escalations for a missed dose of medication med of patient p
MissedDoseEscalations(p, med) ==
    {i \in DOMAIN escalations :
        /\ escalations[i].patient_id = p
        /\ escalations[i].trigger_type = "missed_medication"
        /\ escalations[i].medication_name = med}

\* no acknowledgment of the dose of med scheduled at time t is logged
Unacknowledged(p, med, t) ==
    ~\E ml \in medication_logs :
        ml.patient_id = p /\ ml.medication_name = med /\ ml.scheduled_time = t

\* C12: for a medication rule "1-0-1" (08:00 and 21:00, grace 60 minutes) and
\* no acknowledgment of the 08:00 dose, a check-missed-actions run at 10:05
\* creates one level-0 missed_medication escalation for the medication and
\* re-reminds the patient, and a following run at 10:10 promotes that
\* escalation to level 1 and notifies the caregiver.
C12_MissedMorningDose ==
    [][(/\ check_missed_actions_end
        /\ rules["p1"][1].medication_name = "Aspirin"
        /\ rules["p1"][1].times = <<<<8, 0>>, <<21, 0>>>>
        /\ rules["p1"][1].after_minutes = 60
        /\ Unacknowledged("p1", "Aspirin", <<8, 0>>))
       => LET before == DOMAIN pass.start
              old == MissedDoseEscalations("p1", "Aspirin") \cap before
              new == MissedDoseEscalations("p1", "Aspirin") \ before
          IN /\ (strftime_hm(ist_now(now)) = <<10, 5>> /\ old = {})
                  => /\ Cardinality(new) = 1
                     /\ \A i \in new : /\ escalations[i].level = 0
                                       /\ escalations[i].status = "open"
                     /\ \E k \in DOMAIN notifications :
                           /\ notifications[k].patient_id = "p1"
                           /\ notifications[k].type = "missed_medication"
                           /\ notifications[k].sent_at = now
                     /\ \E k \in DOMAIN outbox : outbox[k].to = "patient"
             /\ \A i \in old :
                   (/\ strftime_hm(ist_now(now)) = <<10, 10>>
                    /\ escalations[i].created_at = now - 5
                    /\ escalations[i].status = "open"
                    /\ pass.start[i] = 0)
                   => /\ escalations[i].level = 1
                      /\ \E k \in DOMAIN outbox : outbox[k].to = "caregiver"]_vars

\* the run at 10:10 has ended: the escalation created at 10:05 is at level 1
\* and the caregiver has a message
C12_Witness ==
    /\ now = AtIST(10, 10, 10)
    /\ resp.op = "check_missed_actions"
    /\ resp.stats.level_ups = 1
    /\ \E i \in MissedDoseEscalations("p1", "Aspirin") :
          /\ escalations[i].created_at = AtIST(10, 10, 5)
          /\ escalations[i].level = 1
          /\ escalations[i].status = "open"
    /\ \E k \in DOMAIN outbox : outbox[k].to = "caregiver"


-----------------------------------------------------------------------------
(* Overlapping invocations of the Rule Scheduler *)

NextSchedOverlap ==
    \/ \E t \in SchedInstants : Advance(t)
    \/ \E i \in Procs : evaluate_begin(i)
    \/ \E i \in Procs : evaluate_check(i)
    \/ \E i \in Procs : evaluate_send(i)
    \/ \E i \in Procs : evaluate_end(i)

SpecSchedOverlap == InitSched /\ [][NextSchedOverlap]_vars

\* C13: when two invocations of the Rule Scheduler overlap, a due rule is
\* dispatched to the patient at most twice on that day, and every dispatch
\* leaves one NotificationRecord for (patient, rule, today).
C13_OverlapAtMostTwice ==
    /\ [](\A p \in DOMAIN patients : \A r \in 1..Len(rules[p]) : \A d \in Days :
            Cardinality(Dispatches(p, r, d)) <= 2)
    /\ [][\A i \in Procs :
            evaluate_send(i) =>
                LET it == Head(sched_runs[i].todo)
                    k == Len(notifications')
                IN /\ k = Len(notifications) + 1
                   /\ SubSeq(notifications', 1, k - 1) = notifications
                   /\ notifications'[k].patient_id = it.patient_id
                   /\ notifications'[k].rule_id = rules[it.patient_id][it.rule].id
                   /\ LocalDay(notifications'[k].sent_at) = LocalDay(now)
                   /\ notifications'[k].date = LocalDay(now)]_vars

\* two overlapping invocations have both dispatched rule r1 on day 10
C13_Witness ==
    /\ Cardinality(Dispatches("p1", 1, 10)) = 2
    /\ \A k \in Dispatches("p1", 1, 10) : notifications[k].sent_at = AtIST(10, 7, 58)


-----------------------------------------------------------------------------
(* Overlapping invocations of check_missed_actions: every read of the open
   escalations and every write that follows it is a step of its own *)

\* check_missed_actions, lines 131-137, of invocation i
chk_begin(i) ==
    /\ pass.pc = "idle"
    /\ chk_runs[i].pc = "idle"
    /\ used < MaxCalls
    /\ used' = used + 1
    /\ chk_runs' = [chk_runs EXCEPT ![i] =
                       [pc |-> "read", todo |-> PassItems(1), found |-> <<>>]]
    /\ UNCHANGED <<now, gw, patients, rules, vital_logs, medication_logs, escalations,
                   notifications, outbox, pass, request, sched_runs, resp>>

\* the missed condition of the next check and, when it holds, the query of the
\* open escalations (lines 143-145, 156-175 and 224-236, or 183-193)
chk_read(i) ==
    /\ chk_runs[i].pc = "read"
    /\ chk_runs[i].todo # <<>>
    /\ LET it == Head(chk_runs[i].todo)
           p == it.patient_id
           today == strftime_date(ist_now(now))
           missed ==
               IF it.kind = "weight" THEN weight_missed(p)
               ELSE IF it.kind = "med" THEN med_missed(p, it.rule, it.k)
               ELSE /\ missed_days(p, 1) >= CONSEC_DAYS
                    /\ ~\E e \in get_open_escalations(escalations, p) :
                           escalations[e].trigger_type = "consecutive_missed_weight"
           existing ==
               IF it.kind = "weight"
               THEN read_existing(escalations, p, "missed_weight", today, None)
               ELSE IF it.kind = "med"
               THEN read_existing(escalations, p, "missed_medication", today,
                                  rules[p][it.rule].medication_name)
               ELSE <<>>
       IN IF item_raises(it)
          THEN chk_runs' = [chk_runs EXCEPT ![i] = IdleChk]
          ELSE chk_runs' = [chk_runs EXCEPT
                              ![i].pc = IF missed THEN "write" ELSE "read",
                              ![i].todo = IF missed THEN @ ELSE Tail(@),
                              ![i].found = IF missed THEN existing ELSE <<>>]
    /\ UNCHANGED <<now, gw, patients, rules, vital_logs, medication_logs, escalations,
                   notifications, outbox, pass, used, request, sched_runs, resp>>

\* the write that follows the read: promotion or creation (lines 238-278), or
\* the creation of the consecutive_missed_weight escalation (lines 194-207)
chk_write(i) ==
    /\ chk_runs[i].pc = "write"
    /\ LET it == Head(chk_runs[i].todo)
           p == it.patient_id
           today == strftime_date(ist_now(now))
           st0 == [Begin EXCEPT !.out = outbox]
           st == IF it.kind = "weight"
                 THEN write_missed_action(st0, p, "missed_weight", today, None,
                                          NoTime, chk_runs[i].found)
                 ELSE IF it.kind = "med"
                 THEN write_missed_action(st0, p, "missed_medication", today,
                                          rules[p][it.rule].medication_name,
                                          rules[p][it.rule].times[it.k],
                                          chk_runs[i].found)
                 ELSE [st0 EXCEPT
                         !.esc = create_escalation(st0.esc,
                                    [patient_id |-> p,
                                     trigger_type |-> "consecutive_missed_weight",
                                     date |-> NoDate, level |-> 2,
                                     medication_name |-> None,
                                     scheduled_time |-> NoTime]),
                         !.out = notify_nurse(st0.out, p)]
       IN /\ escalations' = st.esc
          /\ notifications' = st.notif
          /\ outbox' = st.out
          /\ chk_runs' = [chk_runs EXCEPT ![i].pc = "read", ![i].todo = Tail(@),
                                          ![i].found = <<>>]
    /\ UNCHANGED <<now, gw, patients, rules, vital_logs, medication_logs,
                   pass, used, request, sched_runs, resp>>

\* check_missed_actions, lines 209-210, of invocation i
chk_end(i) ==
    /\ chk_runs[i].pc = "read"
    /\ chk_runs[i].todo = <<>>
    /\ chk_runs' = [chk_runs EXCEPT ![i] = IdleChk]
    /\ UNCHANGED <<now, gw, patients, rules, vital_logs, medication_logs, escalations,
                   notifications, outbox, pass, used, request, sched_runs, resp>>

\* the clock moves on between invocations
AdvanceBetweenRuns(t) ==
    /\ \A i \in Procs : chk_runs[i].pc = "idle"
    /\ Advance(t)

NextChkOverlap ==
    \/ \E t \in Instants : AdvanceBetweenRuns(t)
    \/ \E i \in Procs : chk_begin(i)
    \/ \E i \in Procs : chk_read(i)
    \/ \E i \in Procs : chk_write(i)
    \/ \E i \in Procs : chk_end(i)

SpecChkOverlap == Init /\ [][NextChkOverlap]_vars

\* the triggers check-missed-actions creates escalations for
MissedTriggers == {"missed_weight", "missed_medication", "consecutive_missed_weight"}

\* C14: when two invocations of check-missed-actions overlap there is still at
\* most one open escalation per (patient, trigger type, date, medication
\* name) in every reachable state.
C14_OneOpenPerKeyOverlap ==
    \A i, j \in DOMAIN escalations :
        (/\ i # j
         /\ escalations[i].status = "open" /\ escalations[j].status = "open"
         /\ escalations[i].trigger_type \in MissedTriggers
         /\ escalations[i].patient_id = escalations[j].patient_id
         /\ escalations[i].trigger_type = escalations[j].trigger_type
         /\ escalations[i].date = escalations[j].date)
        => escalations[i].medication_name # escalations[j].medication_name


-----------------------------------------------------------------------------
(* The dispatcher as a function of the patient document and the gateways *)

\* the patient documents: channel preferences, device tokens and phone
DispatchPatients ==
    {[p \in {"p1"} |->
         [Patient(phone, "cg1", "n1", <<>>) EXCEPT
             !.push = push, !.sms = sms, !.device_tokens = tokens]] :
        phone \in {None, "ph1"}, push \in BOOLEAN, sms \in BOOLEAN, tokens \in {0, 1}}

InitDispatch ==
    /\ now = AtIST(10, 7, 55)
    /\ gw \in [fcm : BOOLEAN, sms : BOOLEAN]
    /\ patients \in DispatchPatients
    /\ rules = RulesSched
    /\ vital_logs = {}
    /\ medication_logs = {}
    /\ escalations = <<>>
    /\ notifications = <<>>
    /\ outbox = <<>>
    /\ pass = Idle
    /\ used = 0
    /\ request = <<>>
    /\ sched_runs = NoSched
    /\ chk_runs = NoChk
    /\ resp = NoResp

DispatchInstants == {AtIST(10, 7, 58), AtIST(10, 21, 0)}

NextDispatch ==
    \/ \E t \in DispatchInstants : Advance(t)
    \/ cron_evaluate_reminders(1)
    \/ evaluate_check(1)
    \/ evaluate_send(1)
    \/ evaluate_end(1)
    \/ check_missed_actions_begin
    \/ check_missed_actions_step
    \/ check_missed_actions_end

SpecDispatch == InitDispatch /\ [][NextDispatch]_vars

\* the sends a step has attempted, in order
Attempts == SubSeq(outbox', Len(outbox) + 1, Len(outbox'))

\* the NotificationRecord a step has appended
Recorded == notifications'[Len(notifications')]

\* C15: the dispatcher tries push first, and only if the patient opted in to
\* push and has a device token; it tries SMS only if push was not tried or did
\* not succeed, and only if the patient opted in to SMS and has a phone number;
\* the returned channel is the first channel that reported success, nothing is
\* attempted after a success, and the result is failed exactly when no
\* attempted channel succeeded.
C15_ChannelOrder ==
    [][evaluate_send(1) =>
          LET p == Head(sched_runs[1].todo).patient_id
              channel == Recorded.channel
          IN /\ \A k \in DOMAIN Attempts :
                   /\ Attempts[k].to = "patient"
                   /\ Attempts[k].via \in {"push", "sms"}
                   /\ Attempts[k].via = "push"
                        => /\ k = 1
                           /\ patients[p].push /\ patients[p].device_tokens > 0
                   /\ Attempts[k].via = "sms"
                        => /\ patients[p].sms /\ patients[p].phone # None
                           /\ \A j \in 1..(k - 1) :
                                 Attempts[j].via = "push" /\ ~Attempts[j].ok
                   /\ Attempts[k].ok => k = Len(Attempts) /\ channel = Attempts[k].via
             /\ (patients[p].push /\ patients[p].device_tokens > 0)
                   => Len(Attempts) >= 1 /\ Attempts[1].via = "push"
             /\ channel = "failed" <=> \A k \in DOMAIN Attempts : ~Attempts[k].ok
             /\ sched_runs'[1].stats.sent =
                   sched_runs[1].stats.sent + (IF channel = "failed" THEN 0 ELSE 1)
             /\ sched_runs'[1].stats.failed =
                   sched_runs[1].stats.failed + (IF channel = "failed" THEN 1 ELSE 0)]_vars

\* push was tried and failed, then SMS delivered the reminder
C15_Witness ==
    /\ Len(outbox) = 2
    /\ outbox[1].via = "push" /\ ~outbox[1].ok
    /\ outbox[2].via = "sms" /\ outbox[2].ok
    /\ Len(notifications) = 1 /\ notifications[1].channel = "sms"
    /\ sched_runs[1].stats.sent = 1

\* C16: every call of the dispatcher appends exactly one NotificationRecord
\* under that patient, whatever the outcome: its channel is the value returned
\* to the caller, its status is failed exactly when the channel is failed, and
\* it carries the caller's rule identifier and today's date.
C16_OneRecordPerCall ==
    /\ [][(check_missed_actions_step
           /\ pass'.stats.new_escalations = pass.stats.new_escalations + 1
           /\ escalations'[Len(escalations')].trigger_type \in Level0Triggers)
          => /\ Len(notifications') = Len(notifications) + 1
             /\ SubSeq(notifications', 1, Len(notifications)) = notifications
             /\ Recorded.patient_id = HeadItem.patient_id
             /\ Recorded.channel \in {"push", "sms", "failed"}
             /\ Recorded.channel = "failed" <=> \A k \in DOMAIN Attempts : ~Attempts[k].ok
             /\ Recorded.status = "failed" <=> Recorded.channel = "failed"
             /\ Recorded.status \in {"sent", "failed"}
             /\ Recorded.rule_id = None
             /\ Recorded.date = LocalDay(now)]_vars
    /\ [][evaluate_send(1) =>
             LET it == Head(sched_runs[1].todo)
                 returned_failed == sched_runs'[1].stats.failed = sched_runs[1].stats.failed + 1
                 returned_sent == sched_runs'[1].stats.sent = sched_runs[1].stats.sent + 1
             IN /\ Len(notifications') = Len(notifications) + 1
                /\ SubSeq(notifications', 1, Len(notifications)) = notifications
                /\ Recorded.patient_id = it.patient_id
                /\ Recorded.channel \in {"push", "sms", "failed"}
                /\ Recorded.channel = "failed" <=> returned_failed
                /\ Recorded.channel # "failed" <=> returned_sent
                /\ Recorded.status = "failed" <=> Recorded.channel = "failed"
                /\ Recorded.status \in {"sent", "failed"}
                /\ Recorded.rule_id = rules[it.patient_id][it.rule].id
                /\ Recorded.date = LocalDay(now)]_vars

\* a dispatch with no channel to try has left a failed record for rule r1
C16_Witness ==
    /\ Len(notifications) = 1
    /\ notifications[1].channel = "failed" /\ notifications[1].status = "failed"
    /\ notifications[1].rule_id = "r1" /\ notifications[1].date = 10
    /\ outbox = <<>>
    /\ sched_runs[1].stats.failed = 1


-----------------------------------------------------------------------------
(* Liveness: check_missed_actions invoked every 30 minutes *)

\* main.cron_escalation_check: "Called by Cloud Scheduler every 30 minutes"
CRON_PERIOD == 30

\* reminder_engine._FREQ_TIME_MAP["qid"]
QidTimes == <<<<6, 0>>, <<12, 0>>, <<18, 0>>, <<22, 0>>>>

RulesLive == [p \in {"p1"} |-> <<MedicationRule("r1", "Furosemide", QidTimes)>>]

\* an acknowledgment written at instant t (firestore_client.log_medication)
MedicationLog(p, t, medication_name, scheduled_time) ==
    [patient_id |-> p, medication_name |-> medication_name,
     scheduled_time |-> scheduled_time, status |-> "taken",
     acknowledged_at |-> t, date |-> today_iso(t)]

\* the first three doses of day 10, acknowledged in time
DayDosesTaken ==
    {MedicationLog("p1", AtIST(10, QidTimes[k][1], 5), "Furosemide", QidTimes[k]) :
        k \in 1..3}

\* the invocations run from 22:30 of day 10 to 01:00 of day 11
LiveStart == AtIST(10, 22, 0)
LiveEnd == AtIST(11, 1, 0)

InitLive ==
    /\ now = LiveStart
    /\ gw = [fcm |-> TRUE, sms |-> TRUE]
    /\ patients = Patients0
    /\ rules = RulesLive
    /\ vital_logs \in {{}, {WeightLog("p1", AtIST(10, 9, 0), 70)},
                         {WeightLog("p1", AtIST(9, 9, 0), 70)}}
    /\ medication_logs \in {{}, DayDosesTaken}
    /\ escalations = <<>>
    /\ notifications = <<>>
    /\ outbox = <<>>
    /\ pass = Idle
    /\ used = 0
    /\ request = <<>>
    /\ sched_runs = NoSched
    /\ chk_runs = NoChk
    /\ resp = NoResp

\* the scheduler's next request: 30 minutes after the last one,
\* check_missed_actions starts (lines 131-137)
cron_escalation_check_until(end) ==
    /\ pass.pc = "idle"
    /\ now + CRON_PERIOD <= end
    /\ now' = now + CRON_PERIOD
    /\ pass' = [pc |-> "run", todo |-> PassItems(1), stats |-> ZeroStats,
                start |-> [i \in DOMAIN escalations |-> escalations[i].level]]
    /\ outbox' = <<>>
    /\ resp' = NoResp
    /\ UNCHANGED <<gw, patients, rules, vital_logs, medication_logs, escalations,
                   notifications, used, request, sched_runs, chk_runs>>

cron_escalation_check == cron_escalation_check_until(LiveEnd)

NextLive ==
    \/ cron_escalation_check
    \/ check_missed_actions_step
    \/ check_missed_actions_end

\* every request of the scheduler is made and every invocation runs to its end
SpecLive ==
    /\ InitLive
    /\ [][NextLive]_vars
    /\ WF_vars(cron_escalation_check)
    /\ WF_vars(check_missed_actions_step)
    /\ WF_vars(check_missed_actions_end)

\* the ids an escalation can have in these runs
LiveIds == 1..4

\* C17: if a missed action (unlogged daily weight, unacknowledged overdue
\* dose) stays unperformed and nobody resolves its escalation, then under
\* repeated invocation of check-missed-actions every 30 minutes the
\* escalation created for it eventually reaches level 2.
C17_EventuallyLevel2 ==
    \A i \in LiveIds :
        (i \in DOMAIN escalations /\ escalations[i].status = "open")
            ~> (i \in DOMAIN escalations /\ escalations[i].level = 2)


-----------------------------------------------------------------------------
(* Frequency Normalizer: reminder_engine._parse_frequency_to_times.
   A string is the tuple of its characters. *)

\* reminder_engine._FREQ_TIME_MAP, in the order of its entries
FREQ_TIME_MAP == <<
    [key |-> <<"1", "-", "0", "-", "0">>,
     times |-> <<<<8, 0>>>>],
    [key |-> <<"0", "-", "1", "-", "0">>,
     times |-> <<<<14, 0>>>>],
    [key |-> <<"0", "-", "0", "-", "1">>,
     times |-> <<<<21, 0>>>>],
    [key |-> <<"1", "-", "1", "-", "0">>,
     times |-> <<<<8, 0>>, <<14, 0>>>>],
    [key |-> <<"1", "-", "0", "-", "1">>,
     times |-> <<<<8, 0>>, <<21, 0>>>>],
    [key |-> <<"0", "-", "1", "-", "1">>,
     times |-> <<<<14, 0>>, <<21, 0>>>>],
    [key |-> <<"1", "-", "1", "-", "1">>,
     times |-> <<<<8, 0>>, <<14, 0>>, <<21, 0>>>>],
    [key |-> <<"1", "-", "1", "-", "1", "-", "1">>,
     times |-> <<<<6, 0>>, <<12, 0>>, <<18, 0>>, <<22, 0>>>>],
    [key |-> <<"o", "n", "c", "e", " ", "d", "a", "i", "l", "y">>,
     times |-> <<<<8, 0>>>>],
    [key |-> <<"o", "d">>,
     times |-> <<<<8, 0>>>>],
    [key |-> <<"o", "n", "c", "e", " ", "a", " ", "d", "a", "y">>,
     times |-> <<<<8, 0>>>>],
    [key |-> <<"q", "d">>,
     times |-> <<<<8, 0>>>>],
    [key |-> <<"d", "a", "i", "l", "y">>,
     times |-> <<<<8, 0>>>>],
    [key |-> <<"b", "d">>,
     times |-> <<<<8, 0>>, <<21, 0>>>>],
    [key |-> <<"b", "i", "d">>,
     times |-> <<<<8, 0>>, <<21, 0>>>>],
    [key |-> <<"t", "w", "i", "c", "e", " ", "d", "a", "i", "l", "y">>,
     times |-> <<<<8, 0>>, <<21, 0>>>>],
    [key |-> <<"t", "w", "i", "c", "e", " ", "a", " ", "d", "a", "y">>,
     times |-> <<<<8, 0>>, <<21, 0>>>>],
    [key |-> <<"t", "d", "s">>,
     times |-> <<<<8, 0>>, <<14, 0>>, <<21, 0>>>>],
    [key |-> <<"t", "i", "d">>,
     times |-> <<<<8, 0>>, <<14, 0>>, <<21, 0>>>>],
    [key |-> <<"t", "h", "r", "i", "c", "e", " ", "d", "a", "i", "l", "y">>,
     times |-> <<<<8, 0>>, <<14, 0>>, <<21, 0>>>>],
    [key |-> <<"t", "h", "r", "e", "e", " ", "t", "i", "m", "e", "s", " ", "a", " ", "d", "a", "y">>,
     times |-> <<<<8, 0>>, <<14, 0>>, <<21, 0>>>>],
    [key |-> <<"q", "i", "d">>,
     times |-> <<<<6, 0>>, <<12, 0>>, <<18, 0>>, <<22, 0>>>>],
    [key |-> <<"f", "o", "u", "r", " ", "t", "i", "m", "e", "s", " ", "a", " ", "d", "a", "y">>,
     times |-> <<<<6, 0>>, <<12, 0>>, <<18, 0>>, <<22, 0>>>>],
    [key |-> <<"a", "t", " ", "n", "i", "g", "h", "t">>,
     times |-> <<<<21, 0>>>>],
    [key |-> <<"h", "s">>,
     times |-> <<<<21, 0>>>>],
    [key |-> <<"a", "t", " ", "b", "e", "d", "t", "i", "m", "e">>,
     times |-> <<<<21, 0>>>>],
    [key |-> <<"m", "o", "r", "n", "i", "n", "g">>,
     times |-> <<<<8, 0>>>>],
    [key |-> <<"e", "v", "e", "n", "i", "n", "g">>,
     times |-> <<<<18, 0>>>>],
    [key |-> <<"n", "i", "g", "h", "t">>,
     times |-> <<<<21, 0>>>>],
    [key |-> <<"s", "o", "s">>,
     times |-> <<>>],
    [key |-> <<"p", "r", "n">>,
     times |-> <<>>],
    [key |-> <<"s", "t", "a", "t">>,
     times |-> <<>>],
    [key |-> <<"w", "e", "e", "k", "l", "y">>,
     times |-> <<<<8, 0>>>>]>>

\* str.lower, letter by letter
LowerOf ==
    ("A" :> "a") @@ ("B" :> "b") @@ ("C" :> "c") @@ ("D" :> "d") @@ ("E" :> "e")
    @@ ("F" :> "f") @@ ("G" :> "g") @@ ("H" :> "h") @@ ("I" :> "i") @@ ("J" :> "j")
    @@ ("K" :> "k") @@ ("L" :> "l") @@ ("M" :> "m") @@ ("N" :> "n") @@ ("O" :> "o")
    @@ ("P" :> "p") @@ ("Q" :> "q") @@ ("R" :> "r") @@ ("S" :> "s") @@ ("T" :> "t")
    @@ ("U" :> "u") @@ ("V" :> "v") @@ ("W" :> "w") @@ ("X" :> "x") @@ ("Y" :> "y")
    @@ ("Z" :> "z")

ToLower(c) == IF c \in DOMAIN LowerOf THEN LowerOf[c] ELSE c

\* s.lower()
str_lower(s) == [i \in 1..Len(s) |-> ToLower(s[i])]

\* the white space str.strip removes
WhiteSpace == {" ", "\t", "\n"}

\* s.strip()
RECURSIVE strip(_)
strip(s) ==
    IF s = <<>> THEN s
    ELSE IF Head(s) \in WhiteSpace THEN strip(Tail(s))
    ELSE IF s[Len(s)] \in WhiteSpace THEN strip(SubSeq(s, 1, Len(s) - 1))
    ELSE s

\* the characters the regular expression class \w matches
WordChars ==
    DOMAIN LowerOf \cup {LowerOf[c] : c \in DOMAIN LowerOf}
    \cup {"0", "1", "2", "3", "4", "5", "6", "7", "8", "9", "_"}

\* re.search(r"\b([01]-[01]-[01](?:-[01])?)\b", s): the group of the leftmost
\* match, the optional part taken when the match can end after it; the empty
\* tuple when there is no match
pattern_match(s) ==
    LET At(i) == IF i >= 1 /\ i <= Len(s) THEN s[i] ELSE " "
        Bit(i) == At(i) \in {"0", "1"}
        Dash(i) == At(i) = "-"
        M3(i) == Bit(i) /\ Dash(i + 1) /\ Bit(i + 2) /\ Dash(i + 3) /\ Bit(i + 4)
        M4(i) == M3(i) /\ Dash(i + 5) /\ Bit(i + 6)
        Starts(i) == At(i - 1) \notin WordChars
        Ends(j) == At(j + 1) \notin WordChars
        match_at(i) ==
            IF Starts(i) /\ M4(i) /\ Ends(i + 6) THEN SubSeq(s, i, i + 6)
            ELSE IF Starts(i) /\ M3(i) /\ Ends(i + 4) THEN SubSeq(s, i, i + 4)
            ELSE <<>>
        hits == {i \in 1..Len(s) : match_at(i) # <<>>}
    IN IF hits = {} THEN <<>> ELSE match_at(Min(hits))

\* the entries of the table with this key
entries_of(key) == {k \in DOMAIN FREQ_TIME_MAP : FREQ_TIME_MAP[k].key = key}

\* a parser that gives up on what it cannot parse
NO_TIMES == <<>>

\* _parse_frequency_to_times, lines 86-90: the default, once daily in the morning
DEFAULT_TIMES == <<<<8, 0>>>>

\* reminder_engine._parse_frequency_to_times
parse_frequency_to_times(frequency) ==
    LET freq == str_lower(strip(frequency))
        pattern == pattern_match(freq)
        keywords == {k \in DOMAIN FREQ_TIME_MAP :
                        /\ IsIn(FREQ_TIME_MAP[k].key, freq)
                        /\ FREQ_TIME_MAP[k].times # <<>>}
    IN IF entries_of(freq) # {}
       THEN FREQ_TIME_MAP[Min(entries_of(freq))].times
       ELSE IF pattern # <<>> /\ entries_of(pattern) # {}
       THEN FREQ_TIME_MAP[Min(entries_of(pattern))].times
       ELSE IF keywords # {}
       THEN FREQ_TIME_MAP[Min(keywords)].times
       ELSE DEFAULT_TIMES


\* reminder_engine._is_unknown: the names that stand for no medication
UnknownNames == {None, "unknown", "n/a", "none", ""}

\* generate_reminder_rules, lines 145-181: a daily monitoring rule
MonitoringRule(id, type, time, after_minutes) ==
    [id |-> id, type |-> type, times |-> <<time>>, days |-> "daily",
     medication_name |-> None, after_minutes |-> after_minutes,
     active |-> TRUE, target |-> None]

\* generate_reminder_rules, lines 111-137: the medication rules added for the
\* listed medications, the first of them getting identifier n + 1
RECURSIVE medication_rules(_, _)
medication_rules(meds, n) ==
    IF meds = <<>> THEN <<>>
    ELSE LET med == Head(meds)
             times == parse_frequency_to_times(med.frequency)
         IN IF med.medication_name \in UnknownNames \/ times = <<>>
            THEN medication_rules(Tail(meds), n)
            ELSE <<MedicationRule(n + 1, med.medication_name, times)>>
                 \o medication_rules(Tail(meds), n + 1)

\* reminder_engine.generate_reminder_rules for an extraction that lists
\* medications and leaves every other section out: the medication rules, the
\* three monitoring rules that are on by default, no appointment and no nurse
\* check-in, and the default thresholds stored on the patient
generate_reminder_rules(p, meds) ==
    /\ used < MaxCalls
    /\ LET n == Len(rules[p])
           med_rules == medication_rules(meds, n)
           m == n + Len(med_rules)
           counts == [k \in (IF med_rules = <<>> THEN {} ELSE {"medication"})
                            \cup {"weight", "bp", "symptom_check"} |->
                         IF k = "medication" THEN Len(med_rules) ELSE 1]
       IN /\ rules' = [rules EXCEPT ![p] =
                 @ \o med_rules
                   \o <<MonitoringRule(m + 1, "weight", <<7, 30>>, 270),
                        MonitoringRule(m + 2, "bp", <<8, 30>>, 480),
                        MonitoringRule(m + 3, "symptom_check", <<19, 0>>, 180)>>]
          /\ resp' = [NoResp EXCEPT !.op = "generate_reminder_rules",
                                    !.patient_id = p, !.stats = counts]
    /\ patients' = [patients EXCEPT ![p].weight_gain_trigger_24h_kg = 1,
                                    ![p].weight_gain_trigger_7d_kg = 2,
                                    ![p].red_zone = <<>>]
    /\ used' = used + 1
    /\ UNCHANGED <<now, gw, vital_logs, medication_logs, escalations, notifications,
                   outbox, pass, request, sched_runs, chk_runs>>

\* the letters a frequency is typed with besides those of the table
MaxFreq == 2
FreqAlphabet == {"o", "d", "x", "1", "-", " "}

\* every string of at most MaxFreq characters over the alphabet
ShortFrequencies ==
    UNION {[1..n -> FreqAlphabet] : n \in 0..MaxFreq}

\* s in capitals
ToUpper(c) ==
    IF \E u \in DOMAIN LowerOf : LowerOf[u] = c
    THEN CHOOSE u \in DOMAIN LowerOf : LowerOf[u] = c
    ELSE c

Upper(s) == [i \in 1..Len(s) |-> ToUpper(s[i])]

\* s with its first letter in capitals
Capitalised(s) == IF s = <<>> THEN s ELSE <<ToUpper(s[1])>> \o Tail(s)

\* s as it may be typed: any of three casings, with or without blanks around
Typed(s) ==
    {pre \o c \o post : pre \in {<<>>, <<" ">>}, post \in {<<>>, <<" ", " ">>},
                        c \in {s, Upper(s), Capitalised(s)}}

\* s inside a longer instruction
Embedded(s) ==
    {<<"t", "a", "b", " ">> \o s, s \o <<" ", "f", "o", "r", " ", "p", "a", "i", "n">>,
     <<"1", " ", "t", "a", "b", " ">> \o Upper(s) \o <<" ", "i", "f", " ", "n", "e", "e", "d", "e", "d">>}

\* the as-needed codes
AsNeeded == {<<"s", "o", "s">>, <<"p", "r", "n">>, <<"s", "t", "a", "t">>}

TableKeys == {FREQ_TIME_MAP[k].key : k \in DOMAIN FREQ_TIME_MAP}

\* dash patterns inside a longer instruction, and patterns the table lacks
PatternFrequencies ==
    {<<"1", "-", "0", "-", "1", " ", "a", "f", "t", "e", "r", " ", "f", "o", "o", "d">>, <<"t", "a", "b", " ", "1", "-", "1", "-", "1">>, <<"x", "1", "-", "0", "-", "1">>,
     <<"1", "-", "0", "-", "1", "-", "1">>, <<"0", "-", "0", "-", "0">>, <<"t", "a", "k", "e", " ", "0", "-", "0", "-", "1", "-", "0", " ", "d", "a", "i", "l", "y">>}

\* instructions the table knows nothing of
OtherFrequencies ==
    Typed(<<"u", "n", "k", "n", "o", "w", "n">>) \cup {<<"a", "s", " ", "d", "i", "r", "e", "c", "t", "e", "d">>, <<"q", "8", "h">>}

\* the dash patterns of the table
DashKeys ==
    {<<"1", "-", "0", "-", "0">>,
     <<"0", "-", "1", "-", "0">>,
     <<"0", "-", "0", "-", "1">>,
     <<"1", "-", "1", "-", "0">>,
     <<"1", "-", "0", "-", "1">>,
     <<"0", "-", "1", "-", "1">>,
     <<"1", "-", "1", "-", "1">>,
     <<"1", "-", "1", "-", "1", "-", "1">>}

\* a dash pattern of the table inside a longer instruction
EmbeddedPatterns ==
    {pre \o pat \o post : pat \in DashKeys,
        pre \in {<<>>, <<"t", "a", "b", " ">>},
        post \in {<<>>, <<" ", "a", "f", "t", "e", "r", " ", "f", "o", "o", "d">>}}
    \ DashKeys

\* the dosing phrases of the table
DosingPhrases ==
    {<<"o", "n", "c", "e", " ", "d", "a", "i", "l", "y">>,
     <<"o", "n", "c", "e", " ", "a", " ", "d", "a", "y">>,
     <<"t", "w", "i", "c", "e", " ", "d", "a", "i", "l", "y">>,
     <<"t", "w", "i", "c", "e", " ", "a", " ", "d", "a", "y">>,
     <<"t", "h", "r", "i", "c", "e", " ", "d", "a", "i", "l", "y">>,
     <<"t", "h", "r", "e", "e", " ", "t", "i", "m", "e", "s", " ", "a", " ", "d", "a", "y">>,
     <<"f", "o", "u", "r", " ", "t", "i", "m", "e", "s", " ", "a", " ", "d", "a", "y">>,
     <<"a", "t", " ", "n", "i", "g", "h", "t">>,
     <<"a", "t", " ", "b", "e", "d", "t", "i", "m", "e">>}

\* what an instruction goes on with after the dosing phrase
Tails == {<<" ", "w", "i", "t", "h", " ", "m", "e", "a", "l", "s">>, <<" ", "x", " ", "5">>}

\* a dosing phrase of the table followed by other words
PhraseFrequencies == {phrase \o tail : phrase \in DosingPhrases, tail \in Tails}

Frequencies ==
    UNION {Typed(k) : k \in TableKeys}
    \cup UNION {Embedded(c) : c \in AsNeeded}
    \cup PatternFrequencies \cup OtherFrequencies \cup ShortFrequencies
    \cup EmbeddedPatterns \cup PhraseFrequencies

InitFreq ==
    /\ now = AtIST(10, 10, 5)
    /\ gw = [fcm |-> TRUE, sms |-> TRUE]
    /\ patients = [p \in {"p1"} |-> Patient("ph1", "cg1", "n1", <<>>)]
    /\ rules = [p \in {"p1"} |-> <<>>]
    /\ vital_logs = {}
    /\ medication_logs = {}
    /\ escalations = <<>>
    /\ notifications = <<>>
    /\ outbox = <<>>
    /\ pass = Idle
    /\ used = 0
    /\ request \in Frequencies
    /\ sched_runs = NoSched
    /\ chk_runs = NoChk
    /\ resp = NoResp

NextFreq ==
    generate_reminder_rules("p1", <<[medication_name |-> "Furosemide",
                                     frequency |-> request]>>)

SpecFreq == InitFreq /\ [][NextFreq]_vars

\* the times of the medication rules the patient has
MedicationTimes(p) ==
    {rules[p][k].times : k \in {j \in DOMAIN rules[p] : rules[p][j].type = "medication"}}

\* the documented time list of a table key
Documented(key) ==
    FREQ_TIME_MAP[CHOOSE k \in DOMAIN FREQ_TIME_MAP : FREQ_TIME_MAP[k].key = key].times

\* the rules have been generated from a frequency that normalises to times
Normalised(times) ==
    used > 0 /\ MedicationTimes("p1") = (IF times = <<>> THEN {} ELSE {times})

\* C18: a frequency that is a key of the table, in any casing and with blanks
\* around it, gets that key's documented time list, and an as-needed code
\* (SOS, PRN, STAT), typed in any casing or embedded in a longer instruction,
\* gets the empty list, so that no reminder is scheduled for it
C18_TableAndAsNeeded ==
    used > 0 =>
        /\ \A key \in TableKeys : request \in Typed(key) => Normalised(Documented(key))
        /\ \A c \in AsNeeded : request \in Typed(c) \cup Embedded(c) => Normalised(<<>>)

\* the part of C18 about the keys of the table as they are typed
C18_TableKeysTyped ==
    used > 0 =>
        \A key \in TableKeys : request \in Typed(key) => Normalised(Documented(key))


\* string a occurs in string b when case is ignored
Contains(a, b) ==
    \E lo \in 1..(Len(b) + 1) :
        /\ lo + Len(a) - 1 <= Len(b)
        /\ \A k \in 1..Len(a) : ToUpper(a[k]) = ToUpper(b[lo + k - 1])

\* no key of the table occurs in the frequency, so that neither the exact
\* match, nor a dash pattern of the table, nor a keyword can recognise it
Unrecognised(f) == \A key \in TableKeys : ~Contains(key, f)

\* once daily at 08:00
OnceDailyMorning == <<<<8, 0>>>>

\* C19: a frequency that none of the matchers recognises, the empty string and
\* the string "unknown" are normalised to the single time 08:00; the medication
\* gets its daily 08:00 rule and the generation of the rules goes through
C19_DefaultOnceDaily ==
    (/\ used > 0
     /\ \/ request = <<>>
        \/ request \in Typed(<<"u", "n", "k", "n", "o", "w", "n">>)
        \/ Unrecognised(request))
    => Normalised(OnceDailyMorning)

\* rules have been generated from a non-empty frequency, other than "unknown",
\* that holds no key of the table, and the medication is due once, at 08:00
C19_Witness ==
    /\ used > 0
    /\ Len(request) > MaxFreq
    /\ request \notin Typed(<<"u", "n", "k", "n", "o", "w", "n">>)
    /\ Unrecognised(request)
    /\ Normalised(OnceDailyMorning)


-----------------------------------------------------------------------------
(* Consecutive days without a weight log *)

\* the instants of the three prior days at which a weight may have been
\* logged: early in the morning and after breakfast
PriorWeightLogs ==
    {WeightLog("p1", AtIST(d, h, 0), 70) : d \in 7..9, h \in {4, 9}}

ConsecInstants == {AtIST(10, 22, 30), AtIST(11, 4, 0), AtIST(11, 12, 30)}

InitConsec ==
    /\ now = AtIST(10, 4, 0)
    /\ gw = [fcm |-> TRUE, sms |-> TRUE]
    /\ patients = Patients0
    /\ rules = [p \in {"p1"} |-> <<>>]
    /\ vital_logs \in SUBSET PriorWeightLogs
    /\ medication_logs = {}
    /\ escalations = <<>>
    /\ notifications = <<>>
    /\ outbox = <<>>
    /\ pass = Idle
    /\ used = 0
    /\ request = <<>>
    /\ sched_runs = NoSched
    /\ chk_runs = NoChk
    /\ resp = NoResp

NextConsec ==
    \/ \E t \in ConsecInstants : Advance(t)
    \/ check_missed_actions_begin
    \/ check_missed_actions_step
    \/ check_missed_actions_end
    \/ log_patient_vital("p1", "weight", 70, <<>>)

SpecConsec == InitConsec /\ [][NextConsec]_vars

\* none of the three days before today (patient-local) has a weight log of p
NoWeightOnPriorDays(p) ==
    \A k \in 1..CONSEC_DAYS : WeightsLoggedOn(p, LocalDay(now) - k) = {}

\* C20: the consecutive-days check of a pass creates a
\* consecutive_missed_weight escalation, open at level 2, and notifies the
\* nurse, exactly when none of the patient's three prior days has a weight log
\* and no consecutive_missed_weight escalation of the patient is open;
\* otherwise it creates nothing and notifies nobody.
C20_ConsecutiveMissedWeight ==
    [][\A p \in DOMAIN patients :
          (/\ check_missed_actions_step
           /\ HeadItem.kind = "consec"
           /\ HeadItem.patient_id = p) =>
              IF /\ NoWeightOnPriorDays(p)
                 /\ OpenOf(p, {"consecutive_missed_weight"}) = {}
              THEN /\ Len(Added) = 1
                   /\ Added[1].trigger_type = "consecutive_missed_weight"
                   /\ Added[1].patient_id = p
                   /\ Added[1].status = "open"
                   /\ Added[1].level = 2
                   /\ Len(outbox') = Len(outbox) + 1
                   /\ outbox'[Len(outbox')].to = "nurse"
              ELSE /\ Added = <<>>
                   /\ outbox' = outbox]_vars


-----------------------------------------------------------------------------
(* Missed actions and the date of a log: a day that starts before dawn *)

MissedInstants == {AtIST(10, 8, 30), AtIST(10, 12, 30), AtIST(10, 22, 30)}

InitMissed ==
    /\ now = AtIST(10, 4, 0)
    /\ gw = [fcm |-> TRUE, sms |-> TRUE]
    /\ patients = Patients0
    /\ rules = Rules0
    /\ vital_logs = {}
    /\ medication_logs = {}
    /\ escalations = <<>>
    /\ notifications = <<>>
    /\ outbox = <<>>
    /\ pass = Idle
    /\ used = 0
    /\ request = <<>>
    /\ sched_runs = NoSched
    /\ chk_runs = NoChk
    /\ resp = NoResp

NextMissed ==
    \/ \E t \in MissedInstants : Advance(t)
    \/ check_missed_actions_begin
    \/ check_missed_actions_step
    \/ check_missed_actions_end
    \/ log_patient_vital("p1", "weight", 70, <<>>)
    \/ \E d \in Doses : acknowledge_medication("p1", d[1], d[2], d[3])

SpecMissed == InitMissed /\ [][NextMissed]_vars

\* the local day on which an acknowledgment was submitted: that of its
\* acknowledged_at, or, for a dose not taken, which carries none, its date
AckDay(ml) ==
    IF ml.acknowledged_at # NoDate THEN LocalDay(ml.acknowledged_at) ELSE ml.date

\* the acknowledgments of a dose that patient p submitted on local day d
AcksOn(p, d, medication_name, scheduled_time) ==
    {ml \in medication_logs : /\ ml.patient_id = p
                              /\ ml.medication_name = medication_name
                              /\ ml.scheduled_time = scheduled_time
                              /\ AckDay(ml) = d}

\* the step has created or promoted an escalation or sent a message
Touched ==
    \/ escalations' # escalations
    \/ notifications' # notifications
    \/ outbox' # outbox

\* C21: the pass creates or promotes a missed_weight escalation only when the
\* local time is at or past 12:00 and the patient has logged no weight today,
\* and a missed_medication escalation only for a rule time whose scheduled time
\* plus grace minutes has passed and that the patient has not acknowledged
\* today; before the cutoff, or when the log exists, the check of that action
\* creates, promotes and sends nothing.
C21_MissedOnlyWhenStated ==
    [][(check_missed_actions_step /\ Touched) =>
          LET p == HeadItem.patient_id
              today == LocalDay(now)
              hm == strftime_hm(ist_now(now))
          IN /\ HeadItem.kind = "weight" =>
                  /\ StrGE(hm, NOON)
                  /\ WeightsLoggedOn(p, today) = {}
             /\ HeadItem.kind = "med" =>
                  LET rule == rules[p][HeadItem.rule]
                      time == rule.times[HeadItem.k]
                  IN /\ MinutesOf(hm) >= MinutesOf(time) + rule.after_minutes
                     /\ AcksOn(p, today, rule.medication_name, time) = {}]_vars


\* C22: a vital log and a medication acknowledgment are stored under the
\* patient-local date of their submission, the date the engine takes for
\* today; so no missed_weight escalation is made on a day on which the
\* patient logged a weight before noon.
C22_StoredUnderLocalDate ==
    /\ \A v \in vital_logs : v.date = LocalDay(v.logged_at)
    /\ \A ml \in medication_logs :
          ml.acknowledged_at # NoDate => ml.date = LocalDay(ml.acknowledged_at)
    /\ \A i \in DOMAIN escalations :
          escalations[i].trigger_type = "missed_weight" =>
              \A v \in WeightsLoggedOn(escalations[i].patient_id,
                                       LocalDay(escalations[i].created_at)) :
                  StrGE(strftime_hm(ist_now(v.logged_at)), NOON)


-----------------------------------------------------------------------------
(* Rule generation from the medications of a care plan *)

MaxMeds == 2

\* the medications an extraction may list: by name or as "unknown", taken
\* twice daily, once daily, or as needed
Medications ==
    {[medication_name |-> name, frequency |-> f] :
        name \in {"Furosemide", "Aspirin", "unknown"},
        f \in {<<"b", "d">>, <<"O", "D">>, <<"s", "o", "s">>}}

MedLists == UNION {[1..n -> Medications] : n \in 0..MaxMeds}

InitGen ==
    /\ now = AtIST(10, 10, 5)
    /\ gw = [fcm |-> TRUE, sms |-> TRUE]
    /\ patients = [p \in {"p1"} |-> Patient("ph1", "cg1", "n1", <<>>)]
    /\ rules = [p \in {"p1"} |-> <<>>]
    /\ vital_logs = {}
    /\ medication_logs = {}
    /\ escalations = <<>>
    /\ notifications = <<>>
    /\ outbox = <<>>
    /\ pass = Idle
    /\ used = 0
    /\ request \in MedLists
    /\ sched_runs = NoSched
    /\ chk_runs = NoChk
    /\ resp = NoResp

NextGen == generate_reminder_rules("p1", request)

SpecGen == InitGen /\ [][NextGen]_vars

\* the rules a step has added for patient p, and the medication rules among them
AddedRules(p) == SubSeq(rules'[p], Len(rules[p]) + 1, Len(rules'[p]))
AddedMedicationRules(p) ==
    {k \in 1..Len(AddedRules(p)) : AddedRules(p)[k].type = "medication"}

\* the medication count of the summary returned
MedicationCount ==
    IF "medication" \in DOMAIN resp'.stats THEN resp'.stats["medication"] ELSE 0

\* the named medications of the list, and the entries of one of them
NamedMedications(meds) ==
    {meds[k].medication_name : k \in 1..Len(meds)} \ UnknownNames
EntriesOf(meds, name) == {k \in 1..Len(meds) : meds[k].medication_name = name}

\* C23: rule generation writes exactly one medication rule for every distinct
\* medication of the care plan whose normalised frequency is non-empty and
\* none for a medication whose frequency normalises to the empty list; every
\* medication rule has an escalation delay of 60 minutes, and the medication
\* count returned is the number of medication rules written.
C23_OneRulePerMedication ==
    [][\A p \in DOMAIN patients :
          generate_reminder_rules(p, request) =>
              /\ \A name \in NamedMedications(request) :
                    Cardinality({k \in AddedMedicationRules(p) :
                                    AddedRules(p)[k].medication_name = name})
                    = (IF \E k \in EntriesOf(request, name) :
                             parse_frequency_to_times(request[k].frequency) # <<>>
                       THEN 1 ELSE 0)
              /\ \A k \in AddedMedicationRules(p) :
                    /\ AddedRules(p)[k].after_minutes = 60
                    /\ AddedRules(p)[k].medication_name \in NamedMedications(request)
              /\ MedicationCount = Cardinality(AddedMedicationRules(p))]_vars


-----------------------------------------------------------------------------
(* The Rule Scheduler over two patients, with gateways that fail *)

\* the first patient with or without a phone and a device token, opted in to
\* SMS or not; the second one active or not
FleetPatients ==
    {[p \in {"p1", "p2"} |->
         IF p = "p1"
         THEN [Patient(phone, "cg1", "n1", <<>>) EXCEPT
                  !.sms = sms, !.device_tokens = tokens]
         ELSE [Patient("ph2", "cg2", "n2", <<>>) EXCEPT !.status = status]] :
        phone \in {None, "ph1"}, sms \in BOOLEAN, tokens \in {0, 1},
        status \in {"active", "inactive"}}

\* the rules of the two patients; one rule of the first is switched off
RulesFleet ==
    [p \in {"p1", "p2"} |->
        IF p = "p1"
        THEN <<MedicationRule("r1", "Aspirin", <<<<8, 0>>, <<21, 0>>>>),
               [MedicationRule("r2", "Warfarin", <<<<21, 0>>>>) EXCEPT !.active = FALSE],
               NurseCheckinRule("r3", {10}),
               MedicationRule("r4", "Metformin", <<<<21, 0>>>>)>>
        ELSE <<MedicationRule("r1", "Aspirin", <<<<21, 0>>>>)>>]

FleetInstants == {AtIST(10, 10, 0), AtIST(10, 21, 0)}

InitFleet ==
    /\ now = AtIST(10, 7, 58)
    /\ gw \in [fcm : BOOLEAN, sms : BOOLEAN]
    /\ patients \in FleetPatients
    /\ rules = RulesFleet
    /\ vital_logs = {}
    /\ medication_logs = {}
    /\ escalations = <<>>
    /\ notifications = <<>>
    /\ outbox = <<>>
    /\ pass = Idle
    /\ used = 0
    /\ request = <<>>
    /\ sched_runs = NoSched
    /\ chk_runs = NoChk
    /\ resp = NoResp

NextFleet ==
    \/ \E t \in FleetInstants : Advance(t)
    \/ cron_evaluate_reminders(1)
    \/ evaluate_check(1)
    \/ evaluate_send(1)
    \/ evaluate_end(1)

SpecFleet == InitFleet /\ [][NextFleet]_vars

\* the active rules of the active patients, in the order they are examined
ActiveRules ==
    {<<p, r>> \in {"p1", "p2"} \X (1..4) :
        /\ p \in DOMAIN patients /\ patients[p].status = "active"
        /\ r \in DOMAIN rules[p] /\ rules[p][r].active}

\* C24: a gateway that fails never makes the caller fail. When the push send
\* fails the dispatcher goes on to SMS (if the patient opted in and has a
\* phone); an SMS that fails counts as not delivered; when no channel delivers
\* the record says failed, the scheduler counts the rule under failed and goes
\* on with the next rule, and the invocation ends normally having examined
\* every active rule of every active patient.
C24_GatewayFailureContained ==
    /\ [][evaluate_send(1) =>
             LET p == Head(sched_runs[1].todo).patient_id
                 pushed == patients[p].push /\ patients[p].device_tokens > 0
                 texted == patients[p].sms /\ patients[p].phone # None
             IN /\ (pushed /\ ~gw.fcm /\ texted) =>
                      /\ Len(Attempts) = 2
                      /\ Attempts[1].via = "push" /\ ~Attempts[1].ok
                      /\ Attempts[2].via = "sms" /\ Attempts[2].ok = gw.sms
                /\ ~gw.sms => Recorded.channel # "sms"
                /\ ~gw.fcm => Recorded.channel # "push"
                /\ (~gw.fcm /\ ~gw.sms) =>
                      /\ Recorded.channel = "failed"
                      /\ Recorded.status = "failed"
                      /\ sched_runs'[1].stats.failed = sched_runs[1].stats.failed + 1
                      /\ sched_runs'[1].stats.sent = sched_runs[1].stats.sent
                /\ sched_runs'[1].pc = "check"
                /\ sched_runs'[1].todo = Tail(sched_runs[1].todo)
                /\ resp' = resp]_vars
    /\ [][evaluate_end(1) =>
             /\ resp'.code = 200
             /\ resp'.stats.evaluated = Cardinality(ActiveRules)]_vars

\* with both gateways down an invocation has counted the due rules of both
\* patients under failed and ended normally
C24_Witness ==
    /\ ~gw.fcm /\ ~gw.sms
    /\ resp.op = "evaluate_and_send_reminders" /\ resp.code = 200
    /\ resp.stats.failed = 3
    /\ \E k \in DOMAIN notifications : notifications[k].patient_id = "p2"
    /\ \E k \in DOMAIN outbox : outbox[k].via = "push"


-----------------------------------------------------------------------------
(* Requests that name a patient or an escalation that does not exist *)

\* a patient on record and one that is not
PatientIds == {"p1", "p9"}

\* the escalations on record and one identifier beyond them
EscalationIds == 1..(Len(escalations) + 1)

NextNotFound ==
    \/ \E t \in Instants : Advance(t)
    \/ check_missed_actions_begin
    \/ check_missed_actions_step
    \/ check_missed_actions_end
    \/ \E p \in PatientIds : log_patient_vital(p, "weight", 72, <<>>)
    \/ \E p \in PatientIds : weight_threshold_check(p, 72)
    \/ \E p \in PatientIds : acknowledge_medication(p, "Aspirin", <<8, 0>>, "taken")
    \/ \E id \in EscalationIds : acknowledge_alert(id)
    \/ \E id \in EscalationIds : resolve_alert_with_details(id)

SpecNotFound == Init /\ [][NextNotFound]_vars

\* the caller is told that the entity was not found, and nothing is stored,
\* created, promoted, resolved or sent
NotFoundAndUntouched ==
    /\ resp'.code = 404
    /\ UNCHANGED <<vital_logs, medication_logs, escalations, notifications, patients,
                   rules>>
    /\ outbox' = <<>>

\* C25: a vital log, a medication acknowledgment and a threshold check for a
\* patient that does not exist, and an operator's resolve of an escalation
\* that does not exist, report not-found to the caller and leave the store as
\* it was.
C25_NotFoundLeavesStore ==
    [][/\ \A p \in PatientIds \ DOMAIN patients :
             /\ log_patient_vital(p, "weight", 72, <<>>) => NotFoundAndUntouched
             /\ acknowledge_medication(p, "Aspirin", <<8, 0>>, "taken")
                   => NotFoundAndUntouched
             /\ weight_threshold_check(p, 72) => NotFoundAndUntouched
       /\ \A id \in EscalationIds \ DOMAIN escalations :
             /\ acknowledge_alert(id) => NotFoundAndUntouched
             /\ resolve_alert_with_details(id) => NotFoundAndUntouched]_vars


-----------------------------------------------------------------------------
(* When a rule is due *)

\* reminder_engine.generate_reminder_rules, lines 200-251: an appointment
\* reminder, due on the listed dates only
AppointmentRule(id, time, dates) ==
    [id |-> id, type |-> "appointment", times |-> <<time>>, days |-> "list",
     dates |-> dates, medication_name |-> None, after_minutes |-> 0,
     active |-> TRUE, target |-> None]

RulesDue ==
    [p \in {"p1"} |->
        <<MedicationRule("r1", "Aspirin", <<<<8, 0>>, <<21, 0>>>>),
          AppointmentRule("r2", <<9, 0>>, {10}),
          AppointmentRule("r3", <<9, 0>>, {11})>>]

DueInstants ==
    {AtIST(10, 7, 57), AtIST(10, 7, 58), AtIST(10, 8, 2), AtIST(10, 8, 3),
     AtIST(10, 9, 1), AtIST(10, 21, 0), AtIST(11, 9, 0)}

InitDue ==
    /\ now = AtIST(10, 7, 55)
    /\ gw = [fcm |-> TRUE, sms |-> TRUE]
    /\ patients = Patients0
    /\ rules = RulesDue
    /\ vital_logs = {}
    /\ medication_logs = {}
    /\ escalations = <<>>
    /\ notifications = <<>>
    /\ outbox = <<>>
    /\ pass = Idle
    /\ used = 0
    /\ request = <<>>
    /\ sched_runs = NoSched
    /\ chk_runs = NoChk
    /\ resp = NoResp

NextDue ==
    \/ \E t \in DueInstants : Advance(t)
    \/ cron_evaluate_reminders(1)
    \/ evaluate_check(1)
    \/ evaluate_send(1)
    \/ evaluate_end(1)

SpecDue == InitDue /\ [][NextDue]_vars

\* the rule the invocation is looking at is due, as the claim defines it: at
\* the local time and date the invocation read at its start
DueAsStated ==
    LET it == Head(sched_runs[1].todo)
        rule == rules[it.patient_id][it.rule]
        local == sched_runs[1].at + IST_OFFSET
        d == local \div DAY
        t == local % DAY
    IN /\ \/ rule.days = "daily"
          \/ rule.days = "list" /\ d \in rule.dates
       /\ \E k \in 1..Len(rule.times) :
             (t - (rule.times[k][1] * 60 + rule.times[k][2])) \in -2..2

HeadRule(i) ==
    rules[Head(sched_runs[i].todo).patient_id][Head(sched_runs[i].todo).rule]

\* C27: a due rule whose target is the nurse is never dispatched to the
\* patient: the scheduler counts it under skipped on every pass in which it is
\* due, attempts no channel and writes no NotificationRecord for it.
C27_NurseRuleNeverDispatched ==
    /\ [][(evaluate_check(1) /\ HeadRule(1).target = "nurse" /\ DueAsStated) =>
             /\ sched_runs'[1].stats.skipped = sched_runs[1].stats.skipped + 1
             /\ sched_runs'[1].pc = "check"
             /\ sched_runs'[1].todo = Tail(sched_runs[1].todo)
             /\ notifications' = notifications
             /\ outbox' = outbox]_vars
    /\ [][evaluate_send(1) => HeadRule(1).target # "nurse"]_vars
    /\ [](\A k \in DOMAIN notifications :
             \A r \in DOMAIN rules[notifications[k].patient_id] :
                 rules[notifications[k].patient_id][r].id = notifications[k].rule_id
                    => rules[notifications[k].patient_id][r].target # "nurse")

\* two invocations at 10:00 of a check-in day have each counted the nurse's
\* rule as skipped, and nothing was sent or recorded
C27_Witness ==
    /\ now = AtIST(10, 10, 0)
    /\ used = 2
    /\ resp.op = "evaluate_and_send_reminders"
    /\ resp.stats.skipped = 1
    /\ notifications = <<>>
    /\ outbox = <<>>


\* the counters of the invocation in progress, before and after a step
Counters == sched_runs[1].stats
CountersAfter == sched_runs'[1].stats

\* the rules the invocation in progress has still to count
Uncounted ==
    Len(sched_runs[1].todo) - (IF sched_runs[1].pc = "send" THEN 1 ELSE 0)

\* C28: in the counters of a scheduler pass, evaluated is the number of active
\* rules of active patients examined; every examined rule falls in exactly
\* one class (not due, skipped, sent, failed), so sent + skipped + failed is at
\* most evaluated; sent counts the dispatches that returned push or sms and
\* failed those that returned failed; the pass returns these counters.
C28_CountersOfAPass ==
    /\ [][cron_evaluate_reminders(1) => CountersAfter = SchedStats]_vars
    /\ [][evaluate_check(1) =>
             /\ CountersAfter.evaluated = Counters.evaluated + 1
             /\ CountersAfter.sent = Counters.sent
             /\ CountersAfter.failed = Counters.failed
             /\ \/ /\ ~DueAsStated
                   /\ CountersAfter.skipped = Counters.skipped
                   /\ sched_runs'[1].pc = "check"
                \/ /\ DueAsStated
                   /\ CountersAfter.skipped = Counters.skipped + 1
                   /\ sched_runs'[1].pc = "check"
                \/ /\ DueAsStated
                   /\ CountersAfter.skipped = Counters.skipped
                   /\ sched_runs'[1].pc = "send"]_vars
    /\ [][evaluate_send(1) =>
             /\ CountersAfter.evaluated = Counters.evaluated
             /\ CountersAfter.skipped = Counters.skipped
             /\ \/ /\ Recorded.channel \in {"push", "sms"}
                   /\ CountersAfter.sent = Counters.sent + 1
                   /\ CountersAfter.failed = Counters.failed
                \/ /\ Recorded.channel = "failed"
                   /\ CountersAfter.sent = Counters.sent
                   /\ CountersAfter.failed = Counters.failed + 1]_vars
    /\ [](sched_runs[1].pc # "idle" =>
             /\ Counters.evaluated + Uncounted = Cardinality(ActiveRules)
             /\ Counters.sent + Counters.skipped + Counters.failed
                   + (IF sched_runs[1].pc = "send" THEN 1 ELSE 0) <= Counters.evaluated)
    /\ [][evaluate_end(1) =>
             /\ resp'.stats = Counters
             /\ resp'.stats.evaluated = Cardinality(ActiveRules)
             /\ resp'.stats.sent + resp'.stats.skipped + resp'.stats.failed
                   <= resp'.stats.evaluated]_vars

\* a pass over two patients has returned one rule of each class: one not due,
\* one skipped, one failed and one sent
C28_Witness ==
    /\ resp.op = "evaluate_and_send_reminders"
    /\ resp.stats = [evaluated |-> 4, sent |-> 1, skipped |-> 1, failed |-> 1]


-----------------------------------------------------------------------------
(* An afternoon of passes over actions that stay missed *)

\* the passes run from 12:30 to 15:00 of day 10
AfternoonStart == AtIST(10, 12, 0)
AfternoonEnd == AtIST(10, 15, 0)

\* the patient with or without a caregiver and a nurse on record
AfternoonPatients ==
    {[p \in {"p1"} |-> Patient("ph1", cg, n, <<>>)] :
        cg \in {None, "cg1"}, n \in {None, "n1"}}

InitAfternoon ==
    /\ now = AfternoonStart
    /\ gw \in {[fcm |-> TRUE, sms |-> TRUE], [fcm |-> TRUE, sms |-> FALSE]}
    /\ patients \in AfternoonPatients
    /\ rules = Rules0
    /\ vital_logs \in {{}, {WeightLog("p1", AtIST(10, 9, 0), 70)}}
    /\ medication_logs = {}
    /\ escalations = <<>>
    /\ notifications = <<>>
    /\ outbox = <<>>
    /\ pass = Idle
    /\ used = 0
    /\ request = <<>>
    /\ sched_runs = NoSched
    /\ chk_runs = NoChk
    /\ resp = NoResp

NextAfternoon ==
    \/ cron_escalation_check_until(AfternoonEnd)
    \/ check_missed_actions_step
    \/ check_missed_actions_end
    \/ acknowledge_medication("p1", "Aspirin", <<8, 0>>, "taken")

SpecAfternoon == InitAfternoon /\ [][NextAfternoon]_vars

\* C29: level 2 is terminal until resolved. A pass leaves every open
\* escalation at level 2 as it is, and when the escalation it finds for a
\* missed action is at level 2, whatever its age, handle-missed-action sends
\* nothing and counts nothing.
C29_Level2Terminal ==
    /\ [][check_missed_actions_step =>
             \A i \in DOMAIN escalations :
                 (Open(i) /\ escalations[i].level = 2) => escalations'[i] = escalations[i]]_vars
    /\ [][(/\ check_missed_actions_step
           /\ HeadMissed
           /\ HeadExisting # 0
           /\ escalations[HeadExisting].level = 2) =>
             /\ escalations' = escalations
             /\ notifications' = notifications
             /\ outbox' = outbox
             /\ pass'.stats.new_escalations = pass.stats.new_escalations
             /\ pass'.stats.level_ups = pass.stats.level_ups]_vars

\* a pass has found the escalation of the unlogged weight at level 2, three
\* passes after the one that took it there, and has counted nothing
C29_Witness ==
    /\ now = AfternoonEnd
    /\ resp.op = "check_missed_actions"
    /\ resp.stats.new_escalations = 0 /\ resp.stats.level_ups = 0
    /\ \E i \in DOMAIN escalations :
          /\ escalations[i].trigger_type = "missed_weight"
          /\ Open(i) /\ escalations[i].level = 2
          /\ now - escalations[i].created_at >= 150


\* the step has got a message through to this recipient
Reached(to) == \E k \in DOMAIN Attempts : Attempts[k].to = to /\ Attempts[k].ok

\* C30: the level of an escalation tells who was notified. A pass takes an
\* escalation to level 1 only with a notification to the caregiver and to
\* level 2 only with a notification to the nurse; when the caregiver or the
\* nurse cannot be notified (no phone on record, SMS unavailable) the level
\* stays as it is.
C30_LevelTellsWhoWasNotified ==
    [][check_missed_actions_step =>
          /\ \A i \in DOMAIN escalations :
                /\ (escalations[i].level = 0 /\ escalations'[i].level = 1)
                      => Reached("caregiver")
                /\ (escalations[i].level # 2 /\ escalations'[i].level = 2)
                      => Reached("nurse")
          /\ \A i \in DOMAIN escalations' \ DOMAIN escalations :
                escalations'[i].level = 2 => Reached("nurse")]_vars


-----------------------------------------------------------------------------
(* Stale writes of overlapping invocations *)

\* C31: when invocations of check-missed-actions overlap the level of an
\* escalation never decreases: the write of a pass that read the escalation at
\* level 0 does not bring it back to 1 after another pass raised it to 2.
C31_LevelNeverDecreasesOverlap ==
    [][\A i \in DOMAIN escalations :
          escalations'[i].level >= escalations[i].level]_vars


-----------------------------------------------------------------------------
(* A patient action during a check_missed_actions invocation: the request
   handlers run between the reads and the writes of the pass *)

NextChkAction ==
    \/ \E t \in Instants : AdvanceBetweenRuns(t)
    \/ chk_begin(1)
    \/ chk_read(1)
    \/ chk_write(1)
    \/ chk_end(1)
    \/ \E w \in Weights : log_patient_vital("p1", "weight", w, <<>>)
    \/ \E d \in Doses : acknowledge_medication("p1", d[1], d[2], d[3])

SpecChkAction == Init /\ [][NextChkAction]_vars

\* invocation i is about to write for an escalation that is resolved by now
WritesForResolved(i) ==
    /\ chk_runs[i].pc = "write"
    /\ chk_runs[i].found # <<>>
    /\ escalations[chk_runs[i].found[1].id].status = "resolved"
    /\ chk_runs'[i] # chk_runs[i]

\* C32: an escalation that a patient action resolved while a
\* check-missed-actions pass was running is not modified afterwards: the pass
\* does not change its level and sends no caregiver or nurse notification
\* for it.
C32_ResolvedUntouchedByPass ==
    [][/\ \A i \in DOMAIN escalations :
             escalations[i].status = "resolved"
                 => escalations'[i] = escalations[i]
       /\ \A i \in Procs :
             WritesForResolved(i)
                 => \A k \in DOMAIN Attempts :
                        Attempts[k].to \notin {"caregiver", "nurse"}]_vars


-----------------------------------------------------------------------------
(* Rules with several times a day *)

\* the scheduled times of the rule that the reading t of the clock is due for
DueTimes(rule, t) ==
    {k \in DOMAIN rule.times :
        /\ Parses(rule.times[k])
        /\ Abs(MinutesOf(strftime_hm(ist_now(t))), MinutesOf(rule.times[k]))
               <= DUE_WINDOW}

\* the dispatches of rule r of patient p made on the day of t for time k
DispatchesFor(p, r, k, t) ==
    {n \in Dispatches(p, r, LocalDay(t)) :
        k \in DueTimes(rules[p][r], notifications[n].sent_at)}

\* C33: a rule with several scheduled times in a day is dispatched to the
\* patient at each of them: an invocation that finds the rule due for a time
\* no dispatch was made for today sends the reminder, whatever was dispatched
\* for an earlier time of the same rule.
C33_EachScheduledTimeDispatched ==
    [][\A i \in Procs :
          (evaluate_check(i)
           /\ LET it == Head(sched_runs[i].todo)
                  rule == rules[it.patient_id][it.rule]
                  ist == ist_now(sched_runs[i].at)
              IN /\ is_rule_due(strftime_hm(ist), strftime_date(ist), rule)
                 /\ rule.target # "nurse"
                 /\ \E k \in DueTimes(rule, sched_runs[i].at) :
                       DispatchesFor(it.patient_id, it.rule, k, sched_runs[i].at) = {})
          => sched_runs'[i].pc = "send"]_vars


-----------------------------------------------------------------------------
(* The consecutive-days check after the patient has logged a weight *)

\* a weight log of p made today (patient-local) has resolved a
\* consecutive_missed_weight escalation of p
ResolvedByWeightToday(p) ==
    \E i \in DOMAIN escalations : \E v \in vital_logs :
        /\ escalations[i].patient_id = p
        /\ escalations[i].trigger_type = "consecutive_missed_weight"
        /\ escalations[i].status = "resolved"
        /\ escalations[i].resolved_by = "patient_action"
        /\ v.patient_id = p /\ v.type = "weight"
        /\ LocalDay(v.logged_at) = LocalDay(now)
        /\ v.logged_at >= escalations[i].created_at

\* C34: after a weight log of day D has auto-resolved a
\* consecutive_missed_weight escalation, no later check-missed-actions pass of
\* day D creates such an escalation for the patient again or notifies the
\* nurse again.
C34_NoConsecutiveAfterWeightLog ==
    [][\A p \in DOMAIN patients :
          (/\ check_missed_actions_step
           /\ HeadItem.kind = "consec"
           /\ HeadItem.patient_id = p
           /\ ResolvedByWeightToday(p))
          => /\ Added = <<>>
             /\ \A k \in DOMAIN Attempts : Attempts[k].to # "nurse"]_vars


-----------------------------------------------------------------------------
(* Two patients: both periodic passes and the request handlers *)

\* the second patient active or not; both have a caregiver and a nurse
WardPatients ==
    {[p \in {"p1", "p2"} |->
         IF p = "p1" THEN Patient("ph1", "cg1", "n1", <<>>)
         ELSE [Patient("ph2", "cg2", "n2", <<>>) EXCEPT !.status = status]] :
        status \in {"active", "inactive"}}

\* both patients take Aspirin at 08:00; one rule of the first is switched off
RulesWard ==
    [p \in {"p1", "p2"} |->
        IF p = "p1"
        THEN <<MedicationRule("r1", "Aspirin", <<<<8, 0>>>>),
               [MedicationRule("r2", "Warfarin", <<<<8, 0>>>>) EXCEPT !.active = FALSE]>>
        ELSE <<MedicationRule("r1", "Aspirin", <<<<8, 0>>>>)>>]

WardInstants == {AtIST(10, 12, 30), AtIST(10, 13, 0)}

WardIds == {"p1", "p2"}

InitWard ==
    /\ now = AtIST(10, 8, 0)
    /\ gw = [fcm |-> TRUE, sms |-> TRUE]
    /\ patients \in WardPatients
    /\ rules = RulesWard
    /\ vital_logs \in {{}, {WeightLog("p1", AtIST(9, 9, 0), 70),
                            WeightLog("p2", AtIST(9, 9, 0), 70)}}
    /\ medication_logs = {}
    /\ escalations = <<>>
    /\ notifications = <<>>
    /\ outbox = <<>>
    /\ pass = Idle
    /\ used = 0
    /\ request = <<>>
    /\ sched_runs = NoSched
    /\ chk_runs = NoChk
    /\ resp = NoResp

NextWard ==
    \/ \E t \in WardInstants : Advance(t) /\ sched_runs[1].pc = "idle"
    \/ cron_evaluate_reminders(1)
    \/ evaluate_check(1)
    \/ evaluate_send(1)
    \/ evaluate_end(1)
    \/ check_missed_actions_begin /\ sched_runs[1].pc = "idle"
    \/ check_missed_actions_step
    \/ check_missed_actions_end
    \/ \E p \in WardIds : log_patient_vital(p, "weight", 72, <<>>)
    \/ \E p \in WardIds : acknowledge_medication(p, "Aspirin", <<8, 0>>, "taken")
    \/ \E p \in WardIds : weight_threshold_check(p, 72)

SpecWard == InitWard /\ [][NextWard]_vars

\* the step has written nothing outside the scope of patient p
Scoped(p) ==
    /\ \A i \in DOMAIN escalations :
          escalations'[i] # escalations[i] => escalations[i].patient_id = p
    /\ \A k \in DOMAIN Added : Added[k].patient_id = p
    /\ \A k \in DOMAIN notifications : notifications'[k] = notifications[k]
    /\ \A k \in DOMAIN notifications' \ DOMAIN notifications :
          notifications'[k].patient_id = p
    /\ vital_logs \subseteq vital_logs'
    /\ \A v \in vital_logs' \ vital_logs : v.patient_id = p
    /\ medication_logs \subseteq medication_logs'
    /\ \A m \in medication_logs' \ medication_logs : m.patient_id = p
    /\ rules' = rules

\* C35: every operation writes only inside the scope of the patient it is
\* processing: a scheduler or check-missed-actions pass, a vital log, a
\* medication acknowledgment or a threshold check for one patient never
\* creates, promotes or resolves an escalation of another patient and never
\* writes a NotificationRecord, log or rule of another.
C35_WritesWithinPatientScope ==
    [][/\ check_missed_actions_step => Scoped(HeadItem.patient_id)
       /\ (evaluate_check(1) \/ evaluate_send(1))
             => Scoped(Head(sched_runs[1].todo).patient_id)
       /\ \A p \in WardIds :
             (\/ log_patient_vital(p, "weight", 72, <<>>)
              \/ acknowledge_medication(p, "Aspirin", <<8, 0>>, "taken")
              \/ weight_threshold_check(p, 72))
             => Scoped(p)]_vars

\* a weight log of the first patient has resolved its missed_weight escalation
\* while that of the second patient, for the same day, stays open
C35_Witness ==
    /\ resp.op = "log_patient_vital" /\ resp.patient_id = "p1"
    /\ resp.resolved > 0
    /\ \E i, j \in DOMAIN escalations :
          /\ escalations[i].patient_id = "p1" /\ escalations[j].patient_id = "p2"
          /\ escalations[i].trigger_type = "missed_weight"
          /\ escalations[j].trigger_type = "missed_weight"
          /\ escalations[i].status = "resolved" /\ escalations[j].status = "open"


\* the escalations a step has created, or raised the level of
Raised ==
    {escalations'[i] : i \in {j \in DOMAIN escalations' :
        \/ j \notin DOMAIN escalations
        \/ escalations'[j].level # escalations[j].level}}

\* the notification records a step has written
Written ==
    {notifications'[k] : k \in DOMAIN notifications' \ DOMAIN notifications}

\* the step has done nothing for patient q
NothingFor(q) ==
    /\ \A e \in Raised : e.patient_id # q
    /\ \A n \in Written : n.patient_id # q
    /\ \A k \in DOMAIN Attempts : Attempts[k].patient_id # q

\* the step has done nothing for rule r of patient p
NothingForRule(p, r) ==
    /\ \A e \in Raised :
          ~(/\ e.patient_id = p
            /\ e.trigger_type = "missed_medication"
            /\ e.medication_name = rules[p][r].medication_name)
    /\ \A n \in Written : ~(n.patient_id = p /\ n.rule_id = rules[p][r].id)

\* C36: the two periodic passes process only active rules of active patients:
\* for a patient whose status is not active, and for a rule whose active flag
\* is false, no step of either pass sends a notification, writes a
\* NotificationRecord, or creates or promotes an escalation.
C36_OnlyActiveProcessed ==
    [][(\/ check_missed_actions_step
        \/ evaluate_check(1)
        \/ evaluate_send(1))
       => /\ \A q \in DOMAIN patients :
                patients[q].status # "active" => NothingFor(q)
          /\ \A p \in DOMAIN patients : \A r \in DOMAIN rules[p] :
                ~rules[p][r].active => NothingForRule(p, r)]_vars

\* a check-missed-actions pass well after the doses were due has ended with
\* the second patient inactive: one patient checked, escalations created for
\* the first, none for the second and none for the rule switched off
C36_Witness ==
    /\ patients["p2"].status = "inactive"
    /\ now = AtIST(10, 12, 30)
    /\ resp.op = "check_missed_actions"
    /\ resp.stats.checked = 1
    /\ resp.stats.new_escalations >= 2
    /\ \A i \in DOMAIN escalations :
          /\ escalations[i].patient_id = "p1"
          /\ escalations[i].medication_name # "Warfarin"
    /\ \A k \in DOMAIN notifications : notifications[k].patient_id = "p1"


-----------------------------------------------------------------------------
(* Rules whose times hold an entry that cannot be parsed *)

\* a string that is not "HH:MM" (such as "8am"), or an entry that is no string
BadTimes == {<<8>>, NullTime}

\* the first rule of the first patient has a bad entry before its 08:00
RulesBadTime ==
    {[p \in {"p1", "p2"} |->
         IF p = "p1"
         THEN <<MedicationRule("r1", "Aspirin", <<bad, <<8, 0>>>>),
                MedicationRule("r2", "Metformin", <<<<8, 0>>>>)>>
         ELSE <<MedicationRule("r1", "Aspirin", <<<<8, 0>>>>)>>] :
        bad \in BadTimes}

BadTimeInstants == {AtIST(10, 12, 30), AtIST(10, 13, 0)}

InitBadTime ==
    /\ now = AtIST(10, 8, 0)
    /\ gw \in [fcm : {TRUE}, sms : BOOLEAN]
    /\ patients \in WardPatients
    /\ rules \in RulesBadTime
    /\ vital_logs \in {{}, {WeightLog("p1", AtIST(9, 9, 0), 70),
                            WeightLog("p2", AtIST(9, 9, 0), 70)}}
    /\ medication_logs = {}
    /\ escalations = <<>>
    /\ notifications = <<>>
    /\ outbox = <<>>
    /\ pass = Idle
    /\ used = 0
    /\ request = <<>>
    /\ sched_runs = NoSched
    /\ chk_runs = NoChk
    /\ resp = NoResp

NextBadTime ==
    \/ \E t \in BadTimeInstants : Advance(t) /\ sched_runs[1].pc = "idle"
    \/ cron_evaluate_reminders(1)
    \/ evaluate_check(1)
    \/ evaluate_send(1)
    \/ evaluate_end(1)
    \/ check_missed_actions_begin /\ sched_runs[1].pc = "idle"
    \/ check_missed_actions_step
    \/ check_missed_actions_end

SpecBadTime == InitBadTime /\ [][NextBadTime]_vars

\* the active medication rules of the active patients
ActiveMedicationRules ==
    {<<p, r>> \in WardIds \X (1..2) :
        /\ patients[p].status = "active"
        /\ r \in DOMAIN rules[p]
        /\ rules[p][r].active}

-----------------------------------------------------------------------------
(* The reminder to the patient at the creation of a level-0 escalation *)

\* the step has sent to the patient, or written a notification record
PatientReminded ==
    \/ \E k \in DOMAIN Attempts : Attempts[k].to = "patient"
    \/ Len(notifications') > Len(notifications)

\* C38: the patient is re-reminded for a missed action only when its level-0
\* escalation is created. A step of a pass that finds today's escalation of
\* the same (trigger type, medication name) open creates nothing and sends
\* the patient nothing; a step that reminds the patient has created exactly
\* one escalation, at level 0; and new_escalations grows by one per
\* escalation created.
C38_RemindedOnlyAtCreation ==
    [][check_missed_actions_step =>
          /\ pass'.stats.new_escalations
                = pass.stats.new_escalations + Len(Added)
          /\ PatientReminded
                => /\ Len(Added) = 1
                   /\ Added[1].level = 0
                   /\ Added[1].trigger_type \in Level0Triggers
          /\ (HeadItem.kind # "consec" /\ HeadMissed /\ HeadExisting # 0)
                => /\ Added = <<>>
                   /\ ~PatientReminded]_vars

\* a later pass of the day has promoted the open missed_weight escalation and
\* created nothing, and the patient has been reminded of the weight once
C38_Witness ==
    /\ resp.op = "check_missed_actions"
    /\ resp.stats.new_escalations = 0
    /\ resp.stats.level_ups >= 1
    /\ \E i \in DOMAIN escalations :
          /\ escalations[i].trigger_type = "missed_weight"
          /\ escalations[i].status = "open"
          /\ escalations[i].level >= 1
    /\ Cardinality({k \in DOMAIN notifications :
                       notifications[k].type = "missed_weight"}) = 1


-----------------------------------------------------------------------------
(* A dose acknowledged as skipped *)

\* the dose escalation i was created for is logged as skipped today
SkippedDose(i) ==
    /\ escalations[i].trigger_type = "missed_medication"
    /\ escalations[i].status = "open"
    /\ \E ml \in get_medication_logs_for_date(medication_logs,
                     escalations[i].patient_id, LocalDay(now)) :
          /\ ml.medication_name = escalations[i].medication_name
          /\ ml.scheduled_time = escalations[i].scheduled_time
          /\ ml.status = "skipped"

\* C39: an acknowledgment with status skipped does not resolve the open
\* missed_medication escalation of the dose, and once the dose is logged as
\* skipped no step of a later check-missed-actions pass promotes or resolves
\* that escalation: it stays open at its level.
C39_SkippedDoseStaysOpen ==
    [][/\ (\E ml \in medication_logs' \ medication_logs : ml.status = "skipped")
             => escalations' = escalations
       /\ check_missed_actions_step
             => \A i \in DOMAIN escalations :
                   SkippedDose(i) => escalations'[i] = escalations[i]]_vars


-----------------------------------------------------------------------------
(* The order of the matchers of the normalizer *)

\* C40: the matchers apply in the order exact lookup, embedded dash pattern,
\* substring keyword. An instruction that embeds a dash pattern of the table
\* gets the times of that pattern, and an instruction without a dash pattern
\* in which a dosing phrase of the table is followed by other words gets the
\* times of that phrase.
C40_MatcherOrder ==
    used > 0 =>
       /\ \A pat \in DashKeys :
             (request \in EmbeddedPatterns /\ pattern_match(request) = pat)
                => Normalised(Documented(pat))
       /\ \A phrase \in DosingPhrases : \A tail \in Tails :
             request = phrase \o tail => Normalised(Documented(phrase))

====
